------------------------------ MODULE CaseIntake ------------------------------
(***************************************************************************)
(* Evidence intake and declaration recording on top of the case            *)
(* repository.  Each operation returns the case with one more material and *)
(* an immutable entry about it, a receipt or a declaration record, and     *)
(* persists neither: the composition layer, which this repository does not *)
(* contain, writes the case and the entry to two append-only stores.       *)
(*                                                                         *)
(* A composition layer with a transaction makes both writes in one step.   *)
(* One without saves the case, then the entry, and may stop or fail        *)
(* between the two.  Callers of either kind may share the stores.          *)
(***************************************************************************)
EXTENDS CaseRepository

CONSTANTS
    Evidence,        \* canonical evidence refs
    Claim,           \* canonical claim refs
    ClaimType,       \* claim ref -> the type and subtype the claim carries
    AcceptedClaims,  \* declared requirement -> the types and subtypes it asks
                     \*   for, {} when it is not a declaration requirement
    IntakeId, DeclarationId,
    NoEntry

\* What a material of the two workflows refers to.  Nothing reserves either
\* kind for its workflow: a caller may add any payload to a case directly.
EvidencePayload(e) == [kind |-> "Evidence", ref |-> e]
DeclarationPayload(c) == [kind |-> "Declaration", ref |-> c]

\* An EvidenceIntakeReceipt.
Receipt ==
    [id : IntakeId, tenantId : Tenant, caseId : CaseId, materialId : Material,
     payload : {EvidencePayload(e) : e \in Evidence},
     requirementIds : SUBSET Requirement, links : {{}},
     at : Time, caseRevision : Nat \ {0}]

\* A ProtocolizationDeclarationRecord; links is supportingEvidenceRefs.
Record ==
    [id : DeclarationId, tenantId : Tenant, caseId : CaseId, materialId : Material,
     payload : {DeclarationPayload(c) : c \in Claim},
     requirementIds : SUBSET Requirement, links : SUBSET Evidence,
     at : Time, caseRevision : Nat \ {0}]

Entry == Receipt \cup Record

ASSUME IntakeAssumption ==
    /\ {EvidencePayload(e) : e \in Evidence} \subseteq Payload
    /\ {DeclarationPayload(c) : c \in Claim} \subseteq Payload
    /\ AcceptedClaims \in [Declared -> SUBSET {ClaimType[c] : c \in Claim}]
    /\ IntakeId \cap DeclarationId = {}
    /\ NoEntry \notin Entry

VARIABLES
    slip,        \* the entry each writer was handed and has not saved yet
    receipts,    \* the evidence intake repository
    records      \* the declaration repository

intakeVars == <<store, base, hand, slip, receipts, records>>

IntakeInit ==
    /\ Init
    /\ slip = [w \in Writer |-> NoEntry]
    /\ receipts = [k \in Tenant \X IntakeId |-> NoEntry]
    /\ records = [k \in Tenant \X DeclarationId |-> NoEntry]

-----------------------------------------------------------------------------
(* The two operations.                                                     *)

EvidenceNeverHeld(c) == {}

\* The evidence refs a case already holds.
EvidenceIn(c) == {e \in Evidence : \E x \in c.materials : x.payload = EvidencePayload(e)}

ClaimsIn(c) == {d \in Claim : \E x \in c.materials : x.payload = DeclarationPayload(d)}

EntryUndated(id, c, m, p, rs, links, now) ==
    [id |-> id, tenantId |-> c.tenantId, caseId |-> c.caseId,
     materialId |-> m, payload |-> p, requirementIds |-> rs, links |-> links,
     at |-> NoTime, caseRevision |-> c.revision + 1]

EntryFor(id, c, m, p, rs, links, now) ==
    [id |-> id, tenantId |-> c.tenantId, caseId |-> c.caseId,
     materialId |-> m, payload |-> p, requirementIds |-> rs, links |-> links,
     at |-> now, caseRevision |-> c.revision + 1]

\* intakeProtocolizationEvidence: evidence already in the case is refused, the
\* rest is the case's own addMaterial.
TakeInEvidence(w, t, id, e, m, rs, now) ==
    /\ hand[w] # NoCase /\ e \notin EvidenceIn(hand[w])
    /\ AddMaterial(w, t, m, EvidencePayload(e), rs, now)
    /\ slip' = [slip EXCEPT ![w] =
                  EntryFor(id, hand[w], m, EvidencePayload(e), rs, {}, now)]
    /\ UNCHANGED <<receipts, records>>

\* assertDeclarationRequirementCompatibility: every requirement named is a
\* declaration requirement for this claim type.  Ids the profile does not
\* declare are left for addMaterial to refuse.
Compatible(c, rs) == rs \subseteq Declared => \A r \in rs : ClaimType[c] \in AcceptedClaims[r]

LinksUnchecked(c, links) == links \subseteq Evidence

\* assertEvidenceLinksResolve: every link is evidence of this very case.
LinksResolve(c, links) == links \subseteq EvidenceIn(c)

\* recordProtocolizationDeclaration.
RecordDeclaration(w, t, id, c, links, m, rs, now) ==
    /\ hand[w] # NoCase /\ c \notin ClaimsIn(hand[w])
    /\ LinksResolve(hand[w], links)
    /\ Compatible(c, rs)
    /\ AddMaterial(w, t, m, DeclarationPayload(c), rs, now)
    /\ slip' = [slip EXCEPT ![w] =
                  EntryFor(id, hand[w], m, DeclarationPayload(c), rs, links, now)]
    /\ UNCHANGED <<receipts, records>>

-----------------------------------------------------------------------------
(* Saving.                                                                 *)

EntryKey(e) == <<e.tenantId, e.id>>

\* save of the evidence intake repository: append-only, a taken id is refused.
SaveReceipt(e) ==
    /\ receipts[EntryKey(e)] = NoEntry
    /\ receipts' = [receipts EXCEPT ![EntryKey(e)] = e]
    /\ UNCHANGED records

\* save of the declaration repository, likewise.
SaveRecord(e) ==
    /\ records[EntryKey(e)] = NoEntry
    /\ records' = [records EXCEPT ![EntryKey(e)] = e]
    /\ UNCHANGED receipts

AppendEntry(e) == IF e.id \in IntakeId THEN SaveReceipt(e) ELSE SaveRecord(e)

\* Both writes in one transaction: either save refuses, and nothing is written.
CommitTogether(w) ==
    /\ slip[w] # NoEntry
    /\ Save(w)
    /\ AppendEntry(slip[w])
    /\ slip' = [slip EXCEPT ![w] = NoEntry]

CommitCaseUnchecked(w) ==
    /\ hand[w] # NoCase
    /\ store' = [store EXCEPT ![KeyOf(hand[w])] = hand[w]]
    /\ base' = [base EXCEPT ![w] = hand[w]]
    /\ UNCHANGED <<hand, slip, receipts, records>>

\* The case alone: the first of two writes, or the only one when the operation
\* produced no entry.
CommitCase(w) ==
    /\ Save(w)
    /\ UNCHANGED <<slip, receipts, records>>

CommitEntryUnsaved(w) ==
    /\ slip[w] # NoEntry
    /\ AppendEntry(slip[w])
    /\ slip' = [slip EXCEPT ![w] = NoEntry]
    /\ UNCHANGED <<store, base, hand>>

\* The entry of a case that was saved before.
CommitEntry(w) ==
    /\ slip[w] # NoEntry /\ hand[w] = base[w]
    /\ AppendEntry(slip[w])
    /\ slip' = [slip EXCEPT ![w] = NoEntry]
    /\ UNCHANGED <<store, base, hand>>

-----------------------------------------------------------------------------
\* Reading or creating a case starts over; an entry not saved is forgotten.
Start(w) ==
    /\ \E t \in Tenant, id \in CaseId :
         Get(w, t, id) \/ \E now \in Time : Create(w, t, id, now)
    /\ slip' = [slip EXCEPT ![w] = NoEntry]
    /\ UNCHANGED <<receipts, records>>

\* The case operations that produce no entry.  addProtocolizationCaseMaterial
\* looks neither at the kind of the material nor at what the case already holds,
\* so evidence and claims can be added by it too, past their workflow.
Operation(w, t, now) ==
    /\ \/ Activate(w, t, now)
       \/ Cancel(w, t, now)
       \/ \E m \in Material, rs \in SUBSET Requirement :
            \/ \E p \in Payload : AddMaterial(w, t, m, p, rs, now)
            \/ Associate(w, t, m, rs, now)
    /\ slip' = [slip EXCEPT ![w] = NoEntry]
    /\ UNCHANGED <<receipts, records>>

IntakeStep(w) ==
    \/ Start(w)
    \/ CommitTogether(w) \/ CommitCase(w) \/ CommitEntry(w)
    \/ \E t \in Tenant, now \in Time :
         \/ Operation(w, t, now)
         \/ \E m \in Material, rs \in SUBSET Requirement :
              \/ \E id \in IntakeId, e \in Evidence :
                   TakeInEvidence(w, t, id, e, m, rs, now)
              \/ \E id \in DeclarationId, c \in Claim, links \in SUBSET Evidence :
                   RecordDeclaration(w, t, id, c, links, m, rs, now)

IntakeNext == \E w \in Writer : IntakeStep(w)

IntakeSpec == IntakeInit /\ [][IntakeNext]_intakeVars

-----------------------------------------------------------------------------
\* The entries saved in either repository.
Entries ==
    ({receipts[k] : k \in Tenant \X IntakeId}
       \cup {records[k] : k \in Tenant \X DeclarationId}) \ {NoEntry}

\* Every value is of its type: each repository holds entries of its own kind.
IntakeTypeOK ==
    /\ TypeOK
    /\ slip \in [Writer -> Entry \cup {NoEntry}]
    /\ receipts \in [Tenant \X IntakeId -> Receipt \cup {NoEntry}]
    /\ records \in [Tenant \X DeclarationId -> Record \cup {NoEntry}]

\* The stored case holds what the entry says: its material, with its payload,
\* since the instant and at the latest since the revision the entry names.
Backed(e) ==
    LET c == store[<<e.tenantId, e.caseId>>] IN
      /\ c # NoCase
      /\ e.caseRevision <= c.revision
      /\ \E x \in c.materials :
           /\ x.materialId = e.materialId /\ x.payload = e.payload /\ x.addedAt = e.at
           /\ e.requirementIds \subseteq x.requirementIds

\* No receipt or record describes a material that the case lost the race to
\* hold: an entry is only ever about a committed case revision.
EntriesBacked == \A e \in Entries : Backed(e)

\* Two entries about one case are about two revisions and two materials.
EntriesDistinct ==
    \A e, f \in Entries :
      e # f /\ e.tenantId = f.tenantId /\ e.caseId = f.caseId =>
        e.caseRevision # f.caseRevision /\ e.payload # f.payload

\* The case entry e is about.
CaseOf(e) == store[<<e.tenantId, e.caseId>>]

\* A workflow never takes in evidence or a claim its case already holds, whoever
\* put it there and whoever is saving meanwhile.  The aggregate has no such
\* check, so a case may hold the same reference twice; but beside the material
\* of an entry any other one was added directly, and no earlier.
EntriesComeFirst ==
    \A e \in Entries : \A x \in CaseOf(e).materials :
      x.payload = e.payload /\ x.materialId # e.materialId => e.at <= x.addedAt

\* The evidence a saved declaration record names in support stands in the stored
\* case since the declaration at the latest, and a receipt for that evidence, if
\* there is one, is of an earlier revision: no declaration leans on evidence
\* that lost the race to be in the case, or that came in after it.
LinksStand ==
    \A d \in Entries : \A e \in d.links :
      /\ \E x \in CaseOf(d).materials :
           x.payload = EvidencePayload(e) /\ x.addedAt <= d.at
      /\ \A f \in Entries :
           /\ f.tenantId = d.tenantId /\ f.caseId = d.caseId
           /\ f.payload = EvidencePayload(e)
           => f.caseRevision < d.caseRevision

\* Intake drives the case repository only through steps the repository allows.
UsesRepository == Spec
=============================================================================
