------------------------- MODULE ProtocolizationCase -------------------------
(***************************************************************************)
(* The ProtocolizationCase aggregate of packages/asset-protocolization:    *)
(* the value a case is, the validator every operation and every save runs, *)
(* and the pure operations, which take a case and return the next one.     *)
(*                                                                         *)
(* An operation that throws returns nothing, so it is a guard here: Can... *)
(* collects the checks the operation makes in front of its result and the  *)
(* operator named for the result builds it.  The order of the checks only  *)
(* chooses the error code.  Arrays whose order nothing reads are sets.     *)
(*                                                                         *)
(* A definition that stands right before another one and is named for a    *)
(* deviation from it is a deliberately wrong form of it.  No specification *)
(* uses it; put in the place of the right one, it breaks a property.  The  *)
(* other modules hold some too.                                            *)
(***************************************************************************)
EXTENDS Integers

CONSTANTS
    Tenant,          \* tenant ids
    CaseId,          \* case ids, unique within a tenant
    Requirement,     \* every requirement id a caller may name
    Declared,        \* the requirements of the pinned profile version
    Material,        \* material ids
    Payload,         \* what a material refers to: its kind and its record ref
    Time,            \* canonical UTC instants
    MaxSafeInteger,  \* Number.MAX_SAFE_INTEGER, the largest valid revision
    NoCase           \* undefined, where a case is expected

NoTime == -1         \* an optional instant that is absent

State == {"Draft", "Active", "Cancelled"}

MaterialStatus == {"Pending", "MaterialPresent"}

\* One entry of materials.
CaseMaterial ==
    [materialId : Material, payload : Payload,
     requirementIds : SUBSET Requirement, addedAt : Time]

\* One entry of requirementStates; the projection has one per declared id.
RequirementState ==
    [materialStatus : MaterialStatus, materialIds : SUBSET Material,
     firstMaterialAt : Time \cup {NoTime}, updatedAt : Time]

Case ==
    [tenantId : Tenant, caseId : CaseId, state : State,
     revision : Nat \ {0},
     requirementStates : [Declared -> RequirementState],
     materials : SUBSET CaseMaterial,
     createdAt : Time, updatedAt : Time,
     activatedAt : Time \cup {NoTime}, cancelledAt : Time \cup {NoTime}]

ASSUME CaseAssumption ==
    /\ Declared \subseteq Requirement
    /\ Time \subseteq Nat
    /\ MaxSafeInteger \in Nat \ {0}
    /\ NoCase \notin Case

-----------------------------------------------------------------------------
(* case-validation.ts: the invariants of one case.                         *)

ValidLifecycle(c) ==
    /\ c.revision \in 1 .. MaxSafeInteger
    /\ c.updatedAt >= c.createdAt
    /\ c.activatedAt # NoTime => c.activatedAt >= c.createdAt
    /\ c.state = "Active" => c.activatedAt # NoTime
    /\ c.state = "Draft" => c.activatedAt = NoTime
    /\ c.state = "Cancelled" <=> c.cancelledAt # NoTime
    /\ c.cancelledAt # NoTime => c.cancelledAt >= c.createdAt

ValidMaterials(c) ==
    /\ \A x \in c.materials : x.requirementIds # {} /\ x.addedAt >= c.createdAt
    /\ \A x, y \in c.materials : x.materialId = y.materialId => x = y

ValidProjection(c) ==
    \A r \in Declared :
        LET s == c.requirementStates[r]
        IN  /\ s.materialStatus =
                 IF s.materialIds = {} THEN "Pending" ELSE "MaterialPresent"
            /\ s.materialIds # {} <=> s.firstMaterialAt # NoTime
            /\ \A m \in s.materialIds :
                 \E x \in c.materials : x.materialId = m /\ r \in x.requirementIds

\* The projection points back at every requirement a material names.
ValidCorrelation(c) ==
    \A x \in c.materials : \A r \in x.requirementIds :
        r \in Declared /\ x.materialId \in c.requirementStates[r].materialIds

IsValidCase(c) ==
    ValidLifecycle(c) /\ ValidMaterials(c) /\ ValidProjection(c) /\ ValidCorrelation(c)

-----------------------------------------------------------------------------
(* case-state.ts and the checks the operations share.                      *)

AllowedTransition ==
    {<<"Draft", "Active">>, <<"Draft", "Cancelled">>, <<"Active", "Cancelled">>}

AcceptsMaterialInAnyState(c) == c.state \in State
AcceptsMaterial(c) == c.state \in {"Draft", "Active"}

\* assertOperableCase: the aggregate is valid and the acting tenant owns it.
IsOperable(t, c) == IsValidCase(c) /\ c.tenantId = t

\* assertKnownRequirements: at least one id, each declared by the profile.
KnownRequirements(rs) == rs # {} /\ rs \subseteq Declared

AnyClock(c, now) == now \in Time

\* readClock: a clock that reads earlier than the case's last update is refused.
ClockNotBackwards(c, now) == now >= c.updatedAt

-----------------------------------------------------------------------------
(* case-operations.ts: the results of the operations.                      *)

Created(t, id, now) ==
    [tenantId |-> t, caseId |-> id, state |-> "Draft", revision |-> 1,
     requirementStates |->
       [r \in Declared |-> [materialStatus |-> "Pending", materialIds |-> {},
                            firstMaterialAt |-> NoTime, updatedAt |-> now]],
     materials |-> {}, createdAt |-> now, updatedAt |-> now,
     activatedAt |-> NoTime, cancelledAt |-> NoTime]

Activated(c, now) ==
    [c EXCEPT !.state = "Active", !.revision = c.revision + 1,
              !.updatedAt = now, !.activatedAt = now]

Cancelled(c, now) ==
    [c EXCEPT !.state = "Cancelled", !.revision = c.revision + 1,
              !.updatedAt = now, !.cancelledAt = now]

CorrelateUndated(states, rs, m, now) ==
    [r \in Declared |->
       IF r \notin rs THEN states[r]
       ELSE [materialStatus |-> "MaterialPresent",
             materialIds |-> states[r].materialIds \cup {m},
             firstMaterialAt |-> IF states[r].firstMaterialAt = NoTime THEN now
                                 ELSE states[r].firstMaterialAt,
             updatedAt |-> NoTime]]

\* correlate: one material id added to each named requirement's state.
Correlate(states, rs, m, now) ==
    [r \in Declared |->
       IF r \notin rs THEN states[r]
       ELSE [materialStatus |-> "MaterialPresent",
             materialIds |-> states[r].materialIds \cup {m},
             firstMaterialAt |-> IF states[r].firstMaterialAt = NoTime THEN now
                                 ELSE states[r].firstMaterialAt,
             updatedAt |-> now]]

WithMaterial(c, m, p, rs, now) ==
    [c EXCEPT !.revision = c.revision + 1, !.updatedAt = now,
              !.materials = c.materials \cup
                 {[materialId |-> m, payload |-> p, requirementIds |-> rs, addedAt |-> now]},
              !.requirementStates = Correlate(c.requirementStates, rs, m, now)]

WithAssociationUnprojected(c, m, rs, now) ==
    [c EXCEPT !.revision = c.revision + 1, !.updatedAt = now,
              !.materials =
                 {IF x.materialId = m
                  THEN [x EXCEPT !.requirementIds = x.requirementIds \cup rs]
                  ELSE x : x \in c.materials}]

WithAssociation(c, m, rs, now) ==
    [c EXCEPT !.revision = c.revision + 1, !.updatedAt = now,
              !.materials =
                 {IF x.materialId = m
                  THEN [x EXCEPT !.requirementIds = x.requirementIds \cup rs]
                  ELSE x : x \in c.materials},
              !.requirementStates = Correlate(c.requirementStates, rs, m, now)]

-----------------------------------------------------------------------------
(* When an operation returns a case instead of throwing.  The last check of *)
(* each is sealed(): a result that does not validate is never returned.     *)

CanCreate(t, id, now) == IsValidCase(Created(t, id, now))

CanActivate(t, c, now) ==
    /\ IsOperable(t, c)
    /\ <<c.state, "Active">> \in AllowedTransition
    /\ ClockNotBackwards(c, now)
    /\ IsValidCase(Activated(c, now))

CanCancel(t, c, now) ==
    /\ IsOperable(t, c)
    /\ <<c.state, "Cancelled">> \in AllowedTransition
    /\ ClockNotBackwards(c, now)
    /\ IsValidCase(Cancelled(c, now))

\* The checks of addProtocolizationCaseMaterial before the seal.
AdmitsMaterial(t, c, m, rs, now) ==
    /\ IsOperable(t, c)
    /\ AcceptsMaterial(c)
    /\ \A x \in c.materials : x.materialId # m
    /\ KnownRequirements(rs)
    /\ ClockNotBackwards(c, now)

CanAddMaterial(t, c, m, p, rs, now) ==
    /\ AdmitsMaterial(t, c, m, rs, now)
    /\ IsValidCase(WithMaterial(c, m, p, rs, now))

\* The checks of associateProtocolizationCaseMaterial before the seal.
AdmitsAssociation(t, c, m, rs, now) ==
    /\ IsOperable(t, c)
    /\ AcceptsMaterial(c)
    /\ KnownRequirements(rs)
    /\ \E x \in c.materials : x.materialId = m /\ x.requirementIds \cap rs = {}
    /\ ClockNotBackwards(c, now)

CanAssociate(t, c, m, rs, now) ==
    /\ AdmitsAssociation(t, c, m, rs, now)
    /\ IsValidCase(WithAssociation(c, m, rs, now))

\* d is what one successful operation of tenant t makes of c.
OperationStep(t, c, d) ==
    \E now \in Time :
        \/ CanActivate(t, c, now) /\ d = Activated(c, now)
        \/ CanCancel(t, c, now) /\ d = Cancelled(c, now)
        \/ \E m \in Material, rs \in SUBSET Requirement :
             \/ \E p \in Payload : /\ CanAddMaterial(t, c, m, p, rs, now)
                                   /\ d = WithMaterial(c, m, p, rs, now)
             \/ CanAssociate(t, c, m, rs, now) /\ d = WithAssociation(c, m, rs, now)
=============================================================================
