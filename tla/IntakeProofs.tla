----------------------------- MODULE IntakeProofs -----------------------------
(***************************************************************************)
(* Proofs about evidence intake and declaration recording, for any number  *)
(* of writers, cases, evidence records, claims and ids.  They add no       *)
(* behaviour of their own to the case repository, so what CaseProofs       *)
(* proves of it holds under intake too; and the receipts and records agree *)
(* with the cases they are about, under both ways of committing them.      *)
(***************************************************************************)
EXTENDS CaseIntake, CaseProofs

\* The steps of intake, seen by the case repository.
LEMMA IntakeStepIsStep ==
    ASSUME NEW w \in Writer, IntakeStep(w)
    PROVE  Step(w) \/ UNCHANGED vars
<1>1. CASE Start(w)
  BY <1>1 DEF Start, Step
<1>2. CASE CommitTogether(w)
  BY <1>2 DEF CommitTogether, Step
<1>3. CASE CommitCase(w)
  BY <1>3 DEF CommitCase, Step
<1>4. CASE CommitEntry(w)
  BY <1>4 DEF CommitEntry, vars
<1>5. ASSUME NEW t \in Tenant, NEW now \in Time, Operation(w, t, now)
      PROVE  Step(w)
  <2>1. CASE Activate(w, t, now) \/ Cancel(w, t, now)
    BY <2>1 DEF Step
  <2>2. ASSUME NEW m \in Material, NEW rs \in SUBSET Requirement, NEW p \in Payload,
               AddMaterial(w, t, m, p, rs, now)
        PROVE  Step(w)
    BY <2>2 DEF Step
  <2>3. ASSUME NEW m \in Material, NEW rs \in SUBSET Requirement,
               Associate(w, t, m, rs, now)
        PROVE  Step(w)
    BY <2>3 DEF Step
  <2> QED  BY <1>5, <2>1, <2>2, <2>3 DEF Operation
<1>6. ASSUME NEW t \in Tenant, NEW now \in Time, NEW m \in Material,
             NEW rs \in SUBSET Requirement, NEW id \in IntakeId, NEW e \in Evidence,
             TakeInEvidence(w, t, id, e, m, rs, now)
      PROVE  Step(w)
  <2>1. EvidencePayload(e) \in Payload
    BY IntakeAssumption
  <2>2. AddMaterial(w, t, m, EvidencePayload(e), rs, now)
    BY <1>6 DEF TakeInEvidence
  <2> QED  BY <2>1, <2>2 DEF Step
<1>7. ASSUME NEW t \in Tenant, NEW now \in Time, NEW m \in Material,
             NEW rs \in SUBSET Requirement, NEW id \in DeclarationId, NEW c \in Claim,
             NEW links \in SUBSET Evidence,
             RecordDeclaration(w, t, id, c, links, m, rs, now)
      PROVE  Step(w)
  <2>1. DeclarationPayload(c) \in Payload
    BY IntakeAssumption
  <2>2. AddMaterial(w, t, m, DeclarationPayload(c), rs, now)
    BY <1>7 DEF RecordDeclaration
  <2> QED  BY <2>1, <2>2 DEF Step
<1> QED
  BY <1>1, <1>2, <1>3, <1>4, <1>5, <1>6, <1>7 DEF IntakeStep

\* Whatever the intake workflow does, the case repository beneath it behaves
\* as CaseRepository allows.
THEOREM IntakeUsesRepository == IntakeSpec => UsesRepository
<1>1. IntakeInit => Init
  BY DEF IntakeInit
<1>2. [IntakeNext]_intakeVars => [Next]_vars
  BY IntakeStepIsStep DEF IntakeNext, Next, intakeVars, vars
<1> QED
  BY <1>1, <1>2, PTL DEF IntakeSpec, UsesRepository, Spec

\* Under intake too, one committed operation at a time is what a reader of
\* the case store sees.
COROLLARY IntakeImplementsRegister ==
    ASSUME OpsPerSave = 1
    PROVE  IntakeSpec => ImplementsRegister
BY IntakeUsesRepository, Refinement, PTL DEF UsesRepository

-----------------------------------------------------------------------------
(* Types, and the operations that produce an entry.                          *)

\* What an entry consists of; its id tells receipts from records.
LEMMA EntryFields ==
    ASSUME NEW e \in Entry
    PROVE  /\ e # NoEntry /\ e.tenantId \in Tenant /\ e.caseId \in CaseId
           /\ e.caseRevision \in Nat \ {0}
           /\ e.id \in IntakeId => e \in Receipt
           /\ e.id \notin IntakeId => e \in Record
<1>1. e # NoEntry
  BY IntakeAssumption
<1>2. CASE e \in Receipt
  BY <1>1, <1>2 DEF Receipt
<1>3. CASE e \in Record
  <2>1. e.id \in DeclarationId
    BY <1>3 DEF Record
  <2>2. e.id \notin IntakeId
    BY <2>1, IntakeAssumption
  <2> QED
    BY <1>1, <1>3, <2>2 DEF Record
<1> QED
  BY <1>2, <1>3 DEF Entry

\* Writer w's case gains a material of one of the two workflows, whose payload it did
\* not hold, and w is handed the entry about it.
Produces(w) ==
    \E t \in Tenant, now \in Time, m \in Material, rs \in SUBSET Requirement,
       id \in IntakeId \cup DeclarationId, p \in Payload, links \in SUBSET Evidence :
      /\ AddMaterial(w, t, m, p, rs, now)
      /\ \A x \in hand[w].materials : x.payload # p
      /\ links \subseteq EvidenceIn(hand[w])
      /\ EntryFor(id, hand[w], m, p, rs, links, now) \in Entry
      /\ slip' = [slip EXCEPT ![w] = EntryFor(id, hand[w], m, p, rs, links, now)]
      /\ UNCHANGED <<receipts, records>>

\* Taking in evidence is such an operation.
LEMMA TakeInProduces ==
    ASSUME TypeOK, NEW w \in Writer, NEW t \in Tenant, NEW now \in Time, NEW m \in Material,
           NEW rs \in SUBSET Requirement, NEW id \in IntakeId, NEW e \in Evidence,
           TakeInEvidence(w, t, id, e, m, rs, now)
    PROVE  Produces(w)
<1> DEFINE p == EvidencePayload(e)
           s == EntryFor(id, hand[w], m, p, rs, {}, now)
<1>1. hand[w] \in Case /\ p \in Payload
  BY IntakeAssumption DEF TakeInEvidence, TypeOK
<1>2. \A x \in hand[w].materials : x.payload # p
  BY DEF TakeInEvidence, EvidenceIn
<1>3. s \in Receipt
  <2>1. hand[w].revision + 1 \in Nat \ {0}
    BY <1>1, CaseNumbers
  <2>2. hand[w].tenantId \in Tenant /\ hand[w].caseId \in CaseId
    BY <1>1 DEF Case
  <2>3. p \in {EvidencePayload(f) : f \in Evidence}
    OBVIOUS
  <2> HIDE DEF p
  <2> QED
    BY <2>1, <2>2, <2>3 DEF EntryFor, Receipt
<1>4. /\ AddMaterial(w, t, m, p, rs, now) /\ slip' = [slip EXCEPT ![w] = s]
      /\ UNCHANGED <<receipts, records>>
  BY DEF TakeInEvidence
<1>5. {} \in SUBSET Evidence /\ {} \subseteq EvidenceIn(hand[w]) /\ s \in Entry
  BY <1>3 DEF Entry
<1> HIDE DEF p
<1> QED
  BY <1>1, <1>2, <1>4, <1>5 DEF Produces

\* Recording a declaration is another.
LEMMA RecordProduces ==
    ASSUME TypeOK, NEW w \in Writer, NEW t \in Tenant, NEW now \in Time, NEW m \in Material,
           NEW rs \in SUBSET Requirement, NEW id \in DeclarationId, NEW c \in Claim,
           NEW links \in SUBSET Evidence, RecordDeclaration(w, t, id, c, links, m, rs, now)
    PROVE  Produces(w)
<1> DEFINE p == DeclarationPayload(c)
           s == EntryFor(id, hand[w], m, p, rs, links, now)
<1>1. hand[w] \in Case /\ p \in Payload
  BY IntakeAssumption DEF RecordDeclaration, TypeOK
<1>2. \A x \in hand[w].materials : x.payload # p
  BY DEF RecordDeclaration, ClaimsIn
<1>3. s \in Record
  <2>1. hand[w].revision + 1 \in Nat \ {0}
    BY <1>1, CaseNumbers
  <2>2. hand[w].tenantId \in Tenant /\ hand[w].caseId \in CaseId
    BY <1>1 DEF Case
  <2>3. p \in {DeclarationPayload(f) : f \in Claim}
    OBVIOUS
  <2> HIDE DEF p
  <2> QED
    BY <2>1, <2>2, <2>3 DEF EntryFor, Record
<1>4. /\ AddMaterial(w, t, m, p, rs, now) /\ slip' = [slip EXCEPT ![w] = s]
      /\ UNCHANGED <<receipts, records>> /\ links \subseteq EvidenceIn(hand[w])
  BY DEF RecordDeclaration, LinksResolve
<1>5. s \in Entry
  BY <1>3 DEF Entry
<1> HIDE DEF p
<1> QED
  BY <1>1, <1>2, <1>4, <1>5 DEF Produces

\* A step of intake is one of six.
LEMMA IntakeStepCases ==
    ASSUME TypeOK, NEW w \in Writer, IntakeStep(w)
    PROVE  \/ Start(w) \/ CommitTogether(w) \/ CommitCase(w) \/ CommitEntry(w)
           \/ \E t \in Tenant, now \in Time : Operation(w, t, now)
           \/ Produces(w)
BY TakeInProduces, RecordProduces DEF IntakeStep

\* What saving an entry does to the two repositories.
LEMMA AppendCases ==
    ASSUME IntakeTypeOK, NEW e \in Entry, AppendEntry(e)
    PROVE  /\ receipts' \in [Tenant \X IntakeId -> Receipt \cup {NoEntry}]
           /\ records' \in [Tenant \X DeclarationId -> Record \cup {NoEntry}]
           /\ Entries' \subseteq Entries \cup {e}
           /\ Entries \subseteq Entries' /\ e \in Entries'
<1>1. e # NoEntry
  BY EntryFields
<1>2. CASE e.id \in IntakeId
  <2>1. e \in Receipt
    BY <1>2, EntryFields
  <2>2. EntryKey(e) \in Tenant \X IntakeId
    BY <2>1 DEF Receipt, EntryKey
  <2>3. /\ receipts[EntryKey(e)] = NoEntry /\ records' = records
        /\ receipts' = [receipts EXCEPT ![EntryKey(e)] = e]
    BY <1>2 DEF AppendEntry, SaveReceipt
  <2> QED
    BY <1>1, <2>1, <2>2, <2>3 DEF IntakeTypeOK, Entries
<1>3. CASE e.id \notin IntakeId
  <2>1. e \in Record
    BY <1>3, EntryFields
  <2>2. EntryKey(e) \in Tenant \X DeclarationId
    BY <2>1 DEF Record, EntryKey
  <2>3. /\ records[EntryKey(e)] = NoEntry /\ receipts' = receipts
        /\ records' = [records EXCEPT ![EntryKey(e)] = e]
    BY <1>3 DEF AppendEntry, SaveRecord
  <2> QED
    BY <1>1, <2>1, <2>2, <2>3 DEF IntakeTypeOK, Entries
<1> QED
  BY <1>2, <1>3

\* Every step leaves every variable with a value of its type.
LEMMA IntakeTypeStep ==
    ASSUME IntakeTypeOK, [IntakeNext]_intakeVars
    PROVE  IntakeTypeOK'
<1>1. CASE UNCHANGED intakeVars
  BY <1>1 DEF intakeVars, IntakeTypeOK, TypeOK
<1>2. ASSUME NEW w \in Writer, IntakeStep(w) PROVE IntakeTypeOK'
  <2>1. TypeOK /\ TypeOK'
    BY <1>2, IntakeStepIsStep, TypeStep DEF IntakeTypeOK, Next
  <2>2. CASE \/ Start(w) \/ CommitCase(w)
             \/ \E t \in Tenant, now \in Time : Operation(w, t, now)
    BY <2>1, <2>2 DEF Start, CommitCase, Operation, IntakeTypeOK
  <2>3. CASE CommitTogether(w) \/ CommitEntry(w)
    <3>1. /\ slip[w] \in Entry /\ AppendEntry(slip[w])
          /\ slip' = [slip EXCEPT ![w] = NoEntry]
      BY <2>3 DEF CommitTogether, CommitEntry, IntakeTypeOK
    <3> QED
      BY <2>1, <3>1, AppendCases DEF IntakeTypeOK
  <2>4. CASE Produces(w)
    <3>1. PICK s : /\ s \in Entry /\ slip' = [slip EXCEPT ![w] = s]
                   /\ UNCHANGED <<receipts, records>>
      <4>1. PICK t \in Tenant, now \in Time, m \in Material, rs \in SUBSET Requirement,
                 id \in IntakeId \cup DeclarationId, p \in Payload, links \in SUBSET Evidence :
              /\ AddMaterial(w, t, m, p, rs, now)
              /\ \A x \in hand[w].materials : x.payload # p
              /\ links \subseteq EvidenceIn(hand[w])
              /\ EntryFor(id, hand[w], m, p, rs, links, now) \in Entry
              /\ slip' = [slip EXCEPT ![w] = EntryFor(id, hand[w], m, p, rs, links, now)]
              /\ UNCHANGED <<receipts, records>>
        BY <2>4 DEF Produces
      <4> DEFINE e == EntryFor(id, hand[w], m, p, rs, links, now)
      <4>2. e \in Entry /\ slip' = [slip EXCEPT ![w] = e] /\ UNCHANGED <<receipts, records>>
        BY <4>1
      <4> HIDE DEF e
      <4> QED
        BY <4>2
    <3> QED
      BY <2>1, <3>1 DEF IntakeTypeOK
  <2> QED
    BY <1>2, <2>1, <2>2, <2>3, <2>4, IntakeStepCases
<1> QED
  BY <1>1, <1>2 DEF IntakeNext

\* Receipts and records are stored in their own repositories and are what they should be.
THEOREM IntakeTypeCorrect == IntakeSpec => []IntakeTypeOK
<1>1. IntakeInit => IntakeTypeOK
  BY DEF IntakeInit, Init, IntakeTypeOK, TypeOK
<1> QED
  BY <1>1, IntakeTypeStep, PTL DEF IntakeSpec

-----------------------------------------------------------------------------
(* What the operations do to the materials of a case.                        *)

\* Associating a material keeps every material's id and payload.
LEMMA AssociationMaterials ==
    ASSUME NEW c \in Case, NEW m \in Material, NEW rs, NEW now
    PROVE  \A y \in WithAssociation(c, m, rs, now).materials : \E x \in c.materials :
             /\ y.materialId = x.materialId /\ y.payload = x.payload
             /\ y = IF x.materialId = m
                    THEN [x EXCEPT !.requirementIds = x.requirementIds \cup rs] ELSE x
<1> DEFINE d == WithAssociation(c, m, rs, now)
           wider(x) == [x EXCEPT !.requirementIds = x.requirementIds \cup rs]
<1>1. d.materials = {IF x.materialId = m THEN wider(x) ELSE x : x \in c.materials}
  BY DEF WithAssociation, Case
<1>2. \A x \in c.materials : wider(x).materialId = x.materialId /\ wider(x).payload = x.payload
  BY DEF Case, CaseMaterial
<1> HIDE DEF d
<1>3. \A y \in d.materials : \E x \in c.materials :
        /\ y.materialId = x.materialId /\ y.payload = x.payload
        /\ y = IF x.materialId = m THEN wider(x) ELSE x
  BY <1>1, <1>2
<1> QED
  BY <1>3 DEF d

\* Activating or cancelling keeps the materials, and adding one adds that one.
LEMMA OperationMaterials ==
    ASSUME NEW c \in Case, NEW now
    PROVE  /\ Activated(c, now).materials = c.materials
           /\ Cancelled(c, now).materials = c.materials
           /\ \A m, p, rs :
                WithMaterial(c, m, p, rs, now).materials = c.materials \cup
                  {[materialId |-> m, payload |-> p, requirementIds |-> rs, addedAt |-> now]}
BY DEF Activated, Cancelled, WithMaterial, Case

\* A material of the case an operation returns is one of the case it was given, or
\* entered it no earlier than any of those.
LEMMA OperationAddsLater ==
    ASSUME NEW t, NEW c \in Case, NEW d, OperationStep(t, c, d), HistoryInOrder(c),
           NEW y \in d.materials
    PROVE  \/ \E x \in c.materials : /\ y.materialId = x.materialId
                                     /\ y.payload = x.payload /\ y.addedAt = x.addedAt
           \/ \A x \in c.materials : x.addedAt <= y.addedAt
<1>1. ASSUME NEW now \in Time, d = Activated(c, now) \/ d = Cancelled(c, now)
      PROVE  d.materials = c.materials
  BY <1>1, OperationMaterials
<1>2. ASSUME NEW now \in Time, NEW m \in Material, NEW rs \in SUBSET Requirement,
             NEW p \in Payload, CanAddMaterial(t, c, m, p, rs, now),
             d = WithMaterial(c, m, p, rs, now), y \notin c.materials
      PROVE  \A x \in c.materials : x.addedAt <= y.addedAt
  <2> DEFINE new == [materialId |-> m, payload |-> p, requirementIds |-> rs, addedAt |-> now]
  <2>1. d.materials = c.materials \cup {new} /\ new.addedAt = now
    BY <1>2, OperationMaterials
  <2> HIDE DEF new
  <2>2. y.addedAt = now
    BY <1>2, <2>1
  <2>3. c.updatedAt <= now /\ c.updatedAt \in Nat /\ now \in Nat
    BY <1>2, CaseNumbers, CaseAssumption DEF CanAddMaterial, AdmitsMaterial, ClockNotBackwards
  <2>4. \A x \in c.materials : x.addedAt <= c.updatedAt /\ x.addedAt \in Nat
    BY EntryNumbers DEF HistoryInOrder
  <2> QED
    BY <2>2, <2>3, <2>4
<1>3. ASSUME NEW now \in Time, NEW m \in Material, NEW rs \in SUBSET Requirement,
             d = WithAssociation(c, m, rs, now)
      PROVE  \E x \in c.materials : /\ y.materialId = x.materialId
                                    /\ y.payload = x.payload /\ y.addedAt = x.addedAt
  <2>1. PICK x \in c.materials :
          y = IF x.materialId = m
              THEN [x EXCEPT !.requirementIds = x.requirementIds \cup rs] ELSE x
    BY <1>3, AssociationMaterials
  <2>2. x \in CaseMaterial
    BY DEF Case
  <2> QED
    BY <2>1, <2>2 DEF CaseMaterial
<1> QED
  BY <1>1, <1>2, <1>3 DEF OperationStep

-----------------------------------------------------------------------------
(* Entries and the cases they are about.                                     *)

\* A case holding entry e's material answers for it.
BackedBy(c, e) ==
    /\ c # NoCase
    /\ e.caseRevision <= c.revision
    /\ \E x \in c.materials :
         /\ x.materialId = e.materialId /\ x.payload = e.payload /\ x.addedAt = e.at
         /\ e.requirementIds \subseteq x.requirementIds

\* In case c no other material of e's payload is older than e's.
FirstIn(c, e) ==
    \A x \in c.materials :
      x.payload = e.payload /\ x.materialId # e.materialId => e.at <= x.addedAt

\* Case c holds the evidence e names in support, since e at the latest.
SupportedBy(c, e) ==
    \A l \in e.links : \E x \in c.materials :
      x.payload = EvidencePayload(l) /\ x.addedAt <= e.at

\* All that a stored case owes entry e.
AnswersFor(c, e) == BackedBy(c, e) /\ FirstIn(c, e) /\ SupportedBy(c, e)

\* Case c is case b after the operation that produced entry e.
Produced(b, c, e) ==
    /\ KeyOf(c) = <<e.tenantId, e.caseId>> /\ c \in Case
    /\ e.caseRevision = b.revision + 1 /\ c.revision = b.revision + 1
    /\ \A x \in b.materials : x.payload # e.payload
    /\ \E x \in c.materials :
         /\ c.materials = b.materials \cup {x}
         /\ x.materialId = e.materialId /\ x.payload = e.payload
         /\ x.addedAt = e.at /\ x.requirementIds = e.requirementIds
    /\ SupportedBy(b, e)

\* The entry a writer was handed is about the operation it has not saved yet, or has
\* just saved.
SlipInOrder(b, c, s) ==
    s # NoEntry => b \in Case /\ c \in Case /\ (c = b \/ Produced(b, c, s))

\* The entries whose operation has been saved, whether they have been saved or not.
Known == Entries \cup ({slip[w] : w \in {v \in Writer : hand[v] = base[v]}} \ {NoEntry})

KnownAnswered == \A e \in Known : AnswersFor(store[<<e.tenantId, e.caseId>>], e)

KnownApart ==
    \A e, f \in Known :
      e # f /\ e.tenantId = f.tenantId /\ e.caseId = f.caseId =>
        e.caseRevision # f.caseRevision /\ e.payload # f.payload

\* The known entries about evidence that a known one names in support precede it.
KnownLinked ==
    \A d, f \in Known :
      d.tenantId = f.tenantId /\ d.caseId = f.caseId =>
        \A l \in d.links : f.payload = EvidencePayload(l) => f.caseRevision < d.caseRevision

IntakeInv ==
    /\ IntakeTypeOK /\ LineageInv /\ HistoriesInOrder
    /\ \A w \in Writer : SlipInOrder(base[w], hand[w], slip[w])
    /\ KnownAnswered /\ KnownApart /\ KnownLinked

\* Entries are of their type.
LEMMA KnownType ==
    ASSUME IntakeTypeOK
    PROVE  Known \subseteq Entry /\ Entries \subseteq Known /\ NoEntry \notin Known
BY IntakeAssumption DEF IntakeTypeOK, Known, Entries, Entry

\* The invariant of the repository is kept by the steps of intake.
LEMMA IntakeLineageStep ==
    ASSUME OpsPerSave = 1, LineageInv, HistoriesInOrder, [IntakeNext]_intakeVars
    PROVE  LineageInv' /\ HistoriesInOrder' /\ [Next]_vars
<1>1. [Next]_vars /\ TypeOK
  BY IntakeStepIsStep DEF IntakeNext, Next, intakeVars, vars, LineageInv
<1> QED
  BY <1>1, LineageStep, HistoryStep

\* No operation takes from a case what it owes an entry.
LEMMA OperationAnswers ==
    ASSUME NEW t, NEW c \in Case, NEW d, OperationStep(t, c, d), HistoryInOrder(c),
           NEW e \in Entry, AnswersFor(c, e)
    PROVE  AnswersFor(d, e)
<1>1. /\ d \in Case /\ d # NoCase /\ d.revision = c.revision + 1 /\ c.revision \in Nat
      /\ \A x \in c.materials : Retains(d, x)
  BY OperationResult, OperationKeeps, CaseNumbers, CaseAssumption
<1>2. PICK x \in c.materials :
        /\ x.materialId = e.materialId /\ x.payload = e.payload /\ x.addedAt = e.at
        /\ e.requirementIds \subseteq x.requirementIds
  BY DEF AnswersFor, BackedBy
<1>3. BackedBy(d, e)
  <2>1. e.caseRevision <= d.revision
    BY <1>1, EntryFields DEF AnswersFor, BackedBy
  <2>2. Retains(d, x)
    BY <1>1
  <2> QED
    BY <1>1, <1>2, <2>1, <2>2 DEF BackedBy, Retains
<1>4. FirstIn(d, e)
  <2> SUFFICES ASSUME NEW y \in d.materials, y.payload = e.payload,
                      y.materialId # e.materialId
               PROVE  e.at <= y.addedAt
    BY DEF FirstIn
  <2>1. CASE \E z \in c.materials : /\ y.materialId = z.materialId
                                    /\ y.payload = z.payload /\ y.addedAt = z.addedAt
    BY <2>1 DEF AnswersFor, FirstIn
  <2>2. CASE \A z \in c.materials : z.addedAt <= y.addedAt
    BY <1>2, <2>2
  <2> QED
    BY <2>1, <2>2, OperationAddsLater
<1>5. SupportedBy(d, e)
  BY <1>1 DEF AnswersFor, SupportedBy, Retains
<1> QED
  BY <1>3, <1>4, <1>5 DEF AnswersFor

\* No step takes from a stored case what it owes an entry.
LEMMA AnsweredStep ==
    ASSUME LineageInv, HistoriesInOrder, [Next]_vars, NEW e \in Entry,
           AnswersFor(store[<<e.tenantId, e.caseId>>], e)
    PROVE  AnswersFor(store'[<<e.tenantId, e.caseId>>], e)
<1> DEFINE k == <<e.tenantId, e.caseId>>
           c == store[k]
           d == store'[k]
<1>1. k \in Key /\ c # NoCase
  BY EntryFields DEF AnswersFor, BackedBy, Key
<1>2. /\ c \in Case /\ HistoryInOrder(c) /\ AnswersFor(c, e)
      /\ d = c \/ OperationStep(k[1], c, d)
  BY <1>1, StoredCaseSteps DEF HistoriesInOrder
<1> HIDE DEF c, d, k
<1>3. AnswersFor(d, e)
  BY <1>2, OperationAnswers
<1> QED
  BY <1>3 DEF d, k

\* The operation a writer has an entry for is the one Produced describes.
LEMMA ProductionProduces ==
    ASSUME OpsPerSave = 1, IntakeInv, NEW w \in Writer, Produces(w)
    PROVE  /\ base[w] \in Case /\ base' = base /\ slip'[w] \in Entry
           /\ hand'[w] \in Case /\ hand'[w] # base[w]
           /\ Produced(base[w], hand'[w], slip'[w])
<1>1. PICK t \in Tenant, now \in Time, m \in Material, rs \in SUBSET Requirement,
           id \in IntakeId \cup DeclarationId, p \in Payload, links \in SUBSET Evidence :
        /\ AddMaterial(w, t, m, p, rs, now)
        /\ \A x \in hand[w].materials : x.payload # p
        /\ links \subseteq EvidenceIn(hand[w])
        /\ EntryFor(id, hand[w], m, p, rs, links, now) \in Entry
        /\ slip' = [slip EXCEPT ![w] = EntryFor(id, hand[w], m, p, rs, links, now)]
        /\ UNCHANGED <<receipts, records>>
  BY DEF Produces
<1>2. TypeOK /\ LineageInv /\ IntakeTypeOK /\ HistoriesInOrder
  BY DEF IntakeInv, LineageInv
<1> DEFINE b == base[w]
           d == hand'[w]
           s == EntryFor(id, b, m, p, rs, links, now)
           new == [materialId |-> m, payload |-> p, requirementIds |-> rs, addedAt |-> now]
<1>3. MayOperate(w) /\ UNCHANGED base
  BY <1>1 DEF AddMaterial
<1>4. b \in Case /\ hand[w] = b
  BY <1>2, <1>3, OperatesOnBase
<1>5. d = WithMaterial(b, m, p, rs, now) /\ CanAddMaterial(t, b, m, p, rs, now)
  BY <1>1, <1>2, <1>4 DEF AddMaterial, TypeOK
<1>6. slip'[w] = s /\ s \in Entry
  BY <1>1, <1>2, <1>4 DEF IntakeTypeOK
<1>7. OperationStep(t, b, d)
  BY <1>5 DEF OperationStep
<1>8. /\ d \in Case /\ KeyOf(d) = KeyOf(b) /\ d.revision = b.revision + 1
      /\ b.revision \in Nat
  BY <1>4, <1>7, OperationResult, CaseNumbers
<1>9. d.materials = b.materials \cup {new}
  <2>1. WithMaterial(b, m, p, rs, now).materials = b.materials \cup {new}
    BY <1>4, OperationMaterials
  <2> QED
    BY <1>5, <2>1
<1>10. /\ s.tenantId = b.tenantId /\ s.caseId = b.caseId /\ s.materialId = m
       /\ s.payload = p /\ s.requirementIds = rs /\ s.links = links /\ s.at = now
       /\ s.caseRevision = b.revision + 1
  BY DEF EntryFor
<1>11. /\ new.materialId = m /\ new.payload = p /\ new.addedAt = now
       /\ new.requirementIds = rs
  OBVIOUS
<1>12. \A x \in b.materials : x.payload # p
  BY <1>1, <1>4
<1>13. \A x \in b.materials : x.addedAt <= now
  <2>1. \A x \in b.materials : x.addedAt <= b.updatedAt /\ x.addedAt \in Nat
    BY <1>2, <1>3, <1>4, EntryNumbers DEF HistoriesInOrder, HistoryInOrder, MayOperate
  <2>2. b.updatedAt <= now /\ b.updatedAt \in Nat /\ now \in Nat
    BY <1>4, <1>5, CaseNumbers, CaseAssumption
       DEF CanAddMaterial, AdmitsMaterial, ClockNotBackwards
  <2> QED
    BY <2>1, <2>2
<1>14. \A l \in links : \E x \in b.materials : x.payload = EvidencePayload(l)
  BY <1>1, <1>4 DEF EvidenceIn
<1> HIDE DEF b, d, s, new
<1>15. SupportedBy(b, s)
  BY <1>10, <1>13, <1>14 DEF SupportedBy
<1>16. d # b
  BY <1>8
<1>17. KeyOf(d) = <<s.tenantId, s.caseId>>
  BY <1>8, <1>10 DEF KeyOf
<1>18. Produced(b, d, s)
  BY <1>8, <1>9, <1>10, <1>11, <1>12, <1>15, <1>17 DEF Produced
<1> QED
  BY <1>3, <1>4, <1>6, <1>8, <1>16, <1>18 DEF b, d

\* A writer's step leaves the other writers' values alone.
LEMMA IntakeOthersKept ==
    ASSUME IntakeTypeOK, NEW w \in Writer, IntakeStep(w), NEW v \in Writer, v # w
    PROVE  base'[v] = base[v] /\ hand'[v] = hand[v] /\ slip'[v] = slip[v]
<1>1. TypeOK
  BY DEF IntakeTypeOK
<1>2. base'[v] = base[v] /\ hand'[v] = hand[v]
  <2>1. CASE Step(w)
    BY <1>1, <2>1, StepKeepsOthers
  <2>2. CASE UNCHANGED vars
    BY <2>2 DEF vars
  <2> QED
    BY <2>1, <2>2, IntakeStepIsStep
<1>3. slip' = slip \/ \E s : slip' = [slip EXCEPT ![w] = s]
  BY <1>1, IntakeStepCases
     DEF Start, CommitTogether, CommitCase, CommitEntry, Operation, Produces
<1> QED
  BY <1>2, <1>3 DEF IntakeTypeOK

\* A save makes what the writer holds its base.
LEMMA SaveRebases ==
    ASSUME TypeOK, NEW w \in Writer, Save(w)
    PROVE  hand'[w] = hand[w] /\ base'[w] = hand[w] /\ hand[w] \in Case /\ hand[w] # NoCase
BY DEF Save, TypeOK

\* Every step leaves every writer's entry in order.
LEMMA SlipStep ==
    ASSUME OpsPerSave = 1, IntakeInv, NEW w \in Writer, IntakeStep(w), NEW v \in Writer
    PROVE  SlipInOrder(base'[v], hand'[v], slip'[v])
<1>1. SlipInOrder(base[v], hand[v], slip[v]) /\ IntakeTypeOK /\ TypeOK /\ LineageInv
  BY DEF IntakeInv, IntakeTypeOK
<1>2. CASE v # w
  BY <1>1, <1>2, IntakeOthersKept
<1>3. CASE v = w
  <2>1. ASSUME \/ Start(w) \/ CommitTogether(w) \/ CommitEntry(w)
               \/ \E t \in Tenant, now \in Time : Operation(w, t, now)
        PROVE  slip'[w] = NoEntry
    BY <1>1, <2>1 DEF Start, CommitTogether, CommitEntry, Operation, IntakeTypeOK
  <2>2. CASE slip'[w] = NoEntry
    BY <1>3, <2>2 DEF SlipInOrder
  <2>3. CASE CommitCase(w)
    <3>1. base'[w] = hand'[w] /\ hand'[w] \in Case
      BY <1>1, <2>3, SaveRebases DEF CommitCase
    <3> QED
      BY <1>3, <3>1 DEF SlipInOrder
  <2>4. CASE Produces(w)
    <3>1. /\ base[w] \in Case /\ base' = base /\ slip'[w] \in Entry
          /\ hand'[w] \in Case /\ Produced(base[w], hand'[w], slip'[w])
      BY <2>4, ProductionProduces
    <3> QED
      BY <1>3, <3>1 DEF SlipInOrder
  <2> QED
    BY <1>1, <2>1, <2>2, <2>3, <2>4, IntakeStepCases
<1> QED
  BY <1>2, <1>3

\* An entry becomes known by the save of the operation that produced it, and in no
\* other way.
LEMMA KnownStep ==
    ASSUME OpsPerSave = 1, IntakeInv, NEW w \in Writer, IntakeStep(w)
    PROVE  \/ Known' \subseteq Known
           \/ Save(w) /\ slip[w] # NoEntry /\ Known' \subseteq Known \cup {slip[w]}
<1>1. IntakeTypeOK /\ TypeOK
  BY DEF IntakeInv, IntakeTypeOK
<1>2. \A v \in Writer : v # w => /\ base'[v] = base[v] /\ hand'[v] = hand[v]
                                 /\ slip'[v] = slip[v]
  BY <1>1, IntakeOthersKept
<1>3. ASSUME slip'[w] = NoEntry \/ hand'[w] # base'[w], Entries' \subseteq Entries
      PROVE  Known' \subseteq Known
  BY <1>2, <1>3 DEF Known
<1>4. UNCHANGED <<receipts, records>> => Entries' = Entries
  BY DEF Entries
<1>5. CASE Start(w)
  <2>1. slip'[w] = NoEntry /\ UNCHANGED <<receipts, records>>
    BY <1>1, <1>5 DEF Start, IntakeTypeOK
  <2> QED
    BY <1>3, <1>4, <2>1
<1>6. CASE CommitTogether(w)
  <2>1. /\ Save(w) /\ slip[w] \in Entry /\ slip[w] # NoEntry /\ AppendEntry(slip[w])
        /\ slip'[w] = NoEntry
    BY <1>1, <1>6 DEF CommitTogether, IntakeTypeOK
  <2>2. Entries' \subseteq Entries \cup {slip[w]}
    BY <1>1, <2>1, AppendCases
  <2>3. Known' \subseteq Known \cup {slip[w]}
    BY <1>2, <2>1, <2>2 DEF Known
  <2> QED
    BY <2>1, <2>3
<1>7. CASE CommitCase(w)
  <2>1. Save(w) /\ slip' = slip /\ UNCHANGED <<receipts, records>>
    BY <1>7 DEF CommitCase
  <2>2. CASE slip[w] = NoEntry
    BY <1>3, <1>4, <2>1, <2>2
  <2>3. CASE slip[w] # NoEntry
    <3>1. Known' \subseteq Known \cup {slip[w]}
      BY <1>2, <1>4, <2>1 DEF Known
    <3> QED
      BY <2>1, <2>3, <3>1
  <2> QED
    BY <2>2, <2>3
<1>8. CASE CommitEntry(w)
  <2>1. /\ slip[w] \in Entry /\ slip[w] # NoEntry /\ hand[w] = base[w]
        /\ AppendEntry(slip[w]) /\ slip'[w] = NoEntry
    BY <1>1, <1>8 DEF CommitEntry, IntakeTypeOK
  <2>2. Entries' \subseteq Entries \cup {slip[w]} /\ slip[w] \in Known
    BY <1>1, <2>1, AppendCases DEF Known
  <2>3. Known' \subseteq Known
    BY <1>2, <2>1, <2>2 DEF Known
  <2> QED
    BY <2>3
<1>9. ASSUME NEW t \in Tenant, NEW now \in Time, Operation(w, t, now)
      PROVE  Known' \subseteq Known
  <2>1. slip'[w] = NoEntry /\ UNCHANGED <<receipts, records>>
    BY <1>1, <1>9 DEF Operation, IntakeTypeOK
  <2> QED
    BY <1>3, <1>4, <2>1
<1>10. CASE Produces(w)
  <2>1. hand'[w] # base'[w]
    BY <1>10, ProductionProduces
  <2>2. UNCHANGED <<receipts, records>>
    BY <1>10 DEF Produces
  <2> QED
    BY <1>3, <1>4, <2>1, <2>2
<1> QED
  BY <1>1, <1>5, <1>6, <1>7, <1>8, <1>9, <1>10, IntakeStepCases

\* A save of an operation that produced an entry: the case it replaces, and what the
\* entry says of the new one.
LEMMA SaveWithSlip ==
    ASSUME IntakeInv, NEW w \in Writer, Save(w), slip[w] # NoEntry
    PROVE  LET s == slip[w]
               k == <<s.tenantId, s.caseId>>
           IN  /\ s \in Entry /\ store[k] \in Case /\ store[k] # NoCase
               /\ store[k] = base[w] /\ store'[k] = hand[w]
               /\ Produced(store[k], hand[w], s)
               /\ AnswersFor(store'[k], s)
<1> DEFINE s == slip[w]
           k == KeyOf(hand[w])
<1>1. /\ s \in Entry /\ LineageInv /\ TypeOK
      /\ base[w] \in Case /\ hand[w] \in Case
      /\ hand[w] = base[w] \/ Produced(base[w], hand[w], s)
  BY DEF IntakeInv, IntakeTypeOK, SlipInOrder
<1>2. /\ store'[k] = hand[w] /\ store[k] = base[w] /\ store[k] # NoCase
      /\ OperationStep(k[1], store[k], hand[w])
  BY <1>1, SaveIsRegisterStep, CaseAssumption
<1>3. hand[w].revision = base[w].revision + 1 /\ base[w].revision \in Nat
  BY <1>1, <1>2, OperationResult, CaseNumbers
<1>4. hand[w] # base[w]
  BY <1>3
<1>5. Produced(base[w], hand[w], s)
  BY <1>1, <1>4
<1>6. k = <<s.tenantId, s.caseId>>
  BY <1>5 DEF Produced
<1>7. hand[w] # NoCase /\ s.caseRevision = hand[w].revision /\ s.caseRevision \in Nat
  BY <1>1, <1>5, EntryFields, CaseAssumption DEF Produced
<1>8. \E x \in hand[w].materials :
        /\ x.materialId = s.materialId /\ x.payload = s.payload /\ x.addedAt = s.at
        /\ x.requirementIds = s.requirementIds
  BY <1>5 DEF Produced
<1>9. \A y \in hand[w].materials : y.payload = s.payload => y.materialId = s.materialId
  BY <1>5 DEF Produced
<1>10. SupportedBy(hand[w], s)
  BY <1>5 DEF Produced, SupportedBy
<1> HIDE DEF s, k
<1>11. AnswersFor(hand[w], s)
  BY <1>7, <1>8, <1>9, <1>10 DEF AnswersFor, BackedBy, FirstIn
<1> QED
  BY <1>1, <1>2, <1>5, <1>6, <1>11 DEF s

\* Every known entry stays answered for by the case it is about.
LEMMA KnownAnsweredStep ==
    ASSUME OpsPerSave = 1, IntakeInv, NEW w \in Writer, IntakeStep(w)
    PROVE  KnownAnswered'
<1> SUFFICES ASSUME NEW e \in Known' PROVE AnswersFor(store'[<<e.tenantId, e.caseId>>], e)
  BY DEF KnownAnswered
<1>1. [Next]_vars /\ LineageInv /\ HistoriesInOrder
  BY IntakeStepIsStep DEF Next, IntakeInv
<1>2. CASE e \in Known
  <2>1. e \in Entry /\ AnswersFor(store[<<e.tenantId, e.caseId>>], e)
    BY <1>2, KnownType DEF IntakeInv, KnownAnswered
  <2> QED
    BY <1>1, <2>1, AnsweredStep
<1>3. CASE Save(w) /\ slip[w] # NoEntry /\ e = slip[w]
  BY <1>3, SaveWithSlip
<1> QED
  BY <1>2, <1>3, KnownStep

\* How an entry that becomes known stands to one of its case that is known already.
LEMMA NewEntry ==
    ASSUME IntakeInv, NEW w \in Writer, Save(w), slip[w] # NoEntry, NEW e \in Known,
           e.tenantId = slip[w].tenantId, e.caseId = slip[w].caseId
    PROVE  /\ e.caseRevision < slip[w].caseRevision /\ e.caseRevision # slip[w].caseRevision
           /\ e.payload # slip[w].payload
           /\ \A l \in e.links : slip[w].payload # EvidencePayload(l)
<1> DEFINE s == slip[w]
           c == store[<<s.tenantId, s.caseId>>]
<1>1. c \in Case /\ Produced(c, hand[w], s) /\ AnswersFor(c, e)
  BY SaveWithSlip DEF IntakeInv, KnownAnswered
<1>2. e.caseRevision \in Nat /\ c.revision \in Nat
  <2>1. e \in Entry
    BY KnownType DEF IntakeInv
  <2> QED
    BY <1>1, <2>1, EntryFields, CaseNumbers
<1> HIDE DEF s, c
<1>3. e.caseRevision <= c.revision /\ s.caseRevision = c.revision + 1
  BY <1>1 DEF AnswersFor, BackedBy, Produced
<1>4. e.caseRevision < s.caseRevision /\ e.caseRevision # s.caseRevision
  BY <1>2, <1>3
<1>5. e.payload # s.payload
  BY <1>1 DEF AnswersFor, BackedBy, Produced
<1>6. \A l \in e.links : s.payload # EvidencePayload(l)
  BY <1>1 DEF AnswersFor, SupportedBy, Produced
<1> QED
  BY <1>4, <1>5, <1>6 DEF s

\* A new entry is about a revision and a payload no known entry of the case is about.
LEMMA KnownApartStep ==
    ASSUME OpsPerSave = 1, IntakeInv, NEW w \in Writer, IntakeStep(w)
    PROVE  KnownApart'
<1>1. CASE Known' \subseteq Known
  BY <1>1 DEF IntakeInv, KnownApart
<1>2. CASE Save(w) /\ slip[w] # NoEntry /\ Known' \subseteq Known \cup {slip[w]}
  <2> SUFFICES ASSUME NEW e \in Known', NEW f \in Known', e # f,
                      e.tenantId = f.tenantId, e.caseId = f.caseId
               PROVE  e.caseRevision # f.caseRevision /\ e.payload # f.payload
    BY DEF KnownApart
  <2>1. CASE e \in Known /\ f \in Known
    BY <2>1 DEF IntakeInv, KnownApart
  <2>2. CASE e \in Known /\ f = slip[w]
    BY <1>2, <2>2, NewEntry
  <2>3. CASE e = slip[w] /\ f \in Known
    BY <1>2, <2>3, NewEntry
  <2> QED
    BY <1>2, <2>1, <2>2, <2>3
<1> QED
  BY <1>1, <1>2, KnownStep

\* The evidence a new entry names in support was in its case before it, and what it is
\* about was not.
LEMMA KnownLinkedStep ==
    ASSUME OpsPerSave = 1, IntakeInv, NEW w \in Writer, IntakeStep(w)
    PROVE  KnownLinked'
<1>1. CASE Known' \subseteq Known
  BY <1>1 DEF IntakeInv, KnownLinked
<1>2. CASE Save(w) /\ slip[w] # NoEntry /\ Known' \subseteq Known \cup {slip[w]}
  <2> SUFFICES ASSUME NEW d \in Known', NEW f \in Known', d.tenantId = f.tenantId,
                      d.caseId = f.caseId, NEW l \in d.links, f.payload = EvidencePayload(l)
               PROVE  f.caseRevision < d.caseRevision
    BY DEF KnownLinked
  <2>1. CASE d \in Known /\ f \in Known
    BY <2>1 DEF IntakeInv, KnownLinked
  <2>2. CASE d \in Known /\ f = slip[w]
    BY <1>2, <2>2, NewEntry
  <2>3. CASE d = slip[w] /\ f \in Known
    BY <1>2, <2>3, NewEntry
  <2>4. CASE d = slip[w] /\ f = slip[w]
    <3> DEFINE c == store[<<slip[w].tenantId, slip[w].caseId>>]
    <3>1. Produced(c, hand[w], slip[w])
      BY <1>2, SaveWithSlip
    <3> HIDE DEF c
    <3> QED
      BY <2>4, <3>1 DEF Produced, SupportedBy
  <2> QED
    BY <1>2, <2>1, <2>2, <2>3, <2>4
<1> QED
  BY <1>1, <1>2, KnownStep

\* The invariant holds at the start: nothing is stored, held or handed out.
LEMMA IntakeInvInit ==
    ASSUME IntakeInit
    PROVE  IntakeInv
<1>1. IntakeTypeOK /\ LineageInv /\ HistoriesInOrder
  BY DEF IntakeInit, Init, IntakeTypeOK, TypeOK, LineageInv, StoreValid, Lineage,
         HistoriesInOrder
<1>2. \A w \in Writer : SlipInOrder(base[w], hand[w], slip[w])
  BY DEF IntakeInit, SlipInOrder
<1>3. Known = {}
  BY DEF IntakeInit, Known, Entries
<1> QED
  BY <1>1, <1>2, <1>3 DEF IntakeInv, KnownAnswered, KnownApart, KnownLinked

\* The invariant is inductive.
LEMMA IntakeInvStep ==
    ASSUME OpsPerSave = 1, IntakeInv, [IntakeNext]_intakeVars
    PROVE  IntakeInv'
<1>1. IntakeTypeOK' /\ LineageInv' /\ HistoriesInOrder'
  BY IntakeTypeStep, IntakeLineageStep DEF IntakeInv
<1>2. CASE UNCHANGED intakeVars
  <2>1. /\ store' = store /\ base' = base /\ hand' = hand /\ slip' = slip
        /\ receipts' = receipts /\ records' = records
    BY <1>2 DEF intakeVars
  <2>2. Known' = Known
    BY <2>1 DEF Known, Entries
  <2> QED
    BY <1>1, <2>1, <2>2 DEF IntakeInv, KnownAnswered, KnownApart, KnownLinked
<1>3. ASSUME NEW w \in Writer, IntakeStep(w) PROVE IntakeInv'
  <2>1. \A v \in Writer : SlipInOrder(base'[v], hand'[v], slip'[v])
    BY <1>3, SlipStep
  <2>2. KnownAnswered' /\ KnownApart' /\ KnownLinked'
    BY <1>3, KnownAnsweredStep, KnownApartStep, KnownLinkedStep
  <2> QED
    BY <1>1, <2>1, <2>2 DEF IntakeInv
<1> QED
  BY <1>2, <1>3 DEF IntakeNext

\* Where callers save before operating again, every saved receipt and record is about a
\* material its case holds, whether it was saved with the case or after it.
THEOREM EntriesBackedTheorem ==
    ASSUME OpsPerSave = 1
    PROVE  IntakeSpec => []EntriesBacked
<1>1. IntakeInv => EntriesBacked
  BY KnownType DEF IntakeInv, KnownAnswered, AnswersFor, BackedBy, EntriesBacked, Backed
<1> QED
  BY <1>1, IntakeInvInit, IntakeInvStep, PTL DEF IntakeSpec

\* Under the same discipline no two entries about a case are about one revision, or
\* about one evidence record or claim.
THEOREM EntriesDistinctTheorem ==
    ASSUME OpsPerSave = 1
    PROVE  IntakeSpec => []EntriesDistinct
<1>1. IntakeInv => EntriesDistinct
  BY KnownType DEF IntakeInv, KnownApart, EntriesDistinct
<1> QED
  BY <1>1, IntakeInvInit, IntakeInvStep, PTL DEF IntakeSpec

\* Under the same discipline, and whichever way each caller commits, a workflow never takes in what
\* its case held, though the aggregate would let a caller add it twice.
THEOREM EntriesComeFirstTheorem ==
    ASSUME OpsPerSave = 1
    PROVE  IntakeSpec => []EntriesComeFirst
<1>1. IntakeInv => EntriesComeFirst
  BY KnownType DEF IntakeInv, KnownAnswered, AnswersFor, FirstIn, EntriesComeFirst, CaseOf
<1> QED
  BY <1>1, IntakeInvInit, IntakeInvStep, PTL DEF IntakeSpec

\* And the evidence a saved declaration leans on stands in its case, before it.
THEOREM LinksStandTheorem ==
    ASSUME OpsPerSave = 1
    PROVE  IntakeSpec => []LinksStand
<1>1. IntakeInv => LinksStand
  BY KnownType DEF IntakeInv, KnownAnswered, AnswersFor, SupportedBy, KnownLinked,
                   LinksStand, CaseOf
<1> QED
  BY <1>1, IntakeInvInit, IntakeInvStep, PTL DEF IntakeSpec
=============================================================================
