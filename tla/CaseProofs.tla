------------------------------ MODULE CaseProofs ------------------------------
(***************************************************************************)
(* Proofs about the case aggregate and its revision-checked repository,    *)
(* for every set of tenants, cases, writers, materials, requirements and   *)
(* instants.                                                               *)
(***************************************************************************)
EXTENDS CaseRepository, TLAPS

-----------------------------------------------------------------------------
(* The operations return cases.                                            *)

\* The instants and the revision of a case are integers.
LEMMA CaseNumbers ==
    ASSUME NEW c \in Case
    PROVE  /\ c.createdAt \in Nat /\ c.updatedAt \in Nat /\ c.revision \in Nat \ {0}
           /\ c.activatedAt \in Nat \cup {NoTime} /\ c.cancelledAt \in Nat \cup {NoTime}
<1>1. /\ c.createdAt \in Time /\ c.updatedAt \in Time /\ c.revision \in Nat \ {0}
      /\ c.activatedAt \in Time \cup {NoTime} /\ c.cancelledAt \in Time \cup {NoTime}
  BY DEF Case
<1> QED
  BY <1>1, CaseAssumption

\* Correlating a material leaves one well-typed entry per declared requirement.
LEMMA CorrelateType ==
    ASSUME NEW s \in [Declared -> RequirementState], NEW rs \in SUBSET Requirement,
           NEW m \in Material, NEW now \in Time
    PROVE  Correlate(s, rs, m, now) \in [Declared -> RequirementState]
BY CaseAssumption DEF Correlate, RequirementState, MaterialStatus, NoTime

\* A new case is a case.
LEMMA CreatedType ==
    ASSUME NEW t \in Tenant, NEW id \in CaseId, NEW now \in Time
    PROVE  Created(t, id, now) \in Case
BY CaseAssumption DEF Created, Case, State, RequirementState, MaterialStatus

\* A new case is at revision 1 under its own tenant and case id.
LEMMA CreatedFields ==
    ASSUME NEW t, NEW id, NEW now
    PROVE  /\ Created(t, id, now).revision = 1
           /\ Created(t, id, now).tenantId = t /\ Created(t, id, now).caseId = id
BY DEF Created

\* Activation returns a case.
LEMMA ActivatedType ==
    ASSUME NEW c \in Case, NEW now \in Time
    PROVE  Activated(c, now) \in Case
<1>1. c.revision + 1 \in Nat \ {0}
  BY DEF Case
<1>2. "Active" \in State
  BY DEF State
<1> QED
  BY <1>1, <1>2, Zenon DEF Activated, Case

\* Cancellation returns a case.
LEMMA CancelledType ==
    ASSUME NEW c \in Case, NEW now \in Time
    PROVE  Cancelled(c, now) \in Case
<1>1. c.revision + 1 \in Nat \ {0}
  BY DEF Case
<1>2. "Cancelled" \in State
  BY DEF State
<1> QED
  BY <1>1, <1>2, Zenon DEF Cancelled, Case

\* Adding a material returns a case.
LEMMA WithMaterialType ==
    ASSUME NEW c \in Case, NEW m \in Material, NEW p \in Payload,
           NEW rs \in SUBSET Requirement, NEW now \in Time
    PROVE  WithMaterial(c, m, p, rs, now) \in Case
<1>1. Correlate(c.requirementStates, rs, m, now) \in [Declared -> RequirementState]
  BY CorrelateType DEF Case
<1>2. [materialId |-> m, payload |-> p, requirementIds |-> rs, addedAt |-> now] \in CaseMaterial
  BY DEF CaseMaterial
<1>3. c.materials \cup
        {[materialId |-> m, payload |-> p, requirementIds |-> rs, addedAt |-> now]}
        \in SUBSET CaseMaterial
  BY <1>2 DEF Case
<1>4. c.revision + 1 \in Nat \ {0}
  BY DEF Case
<1> QED
  BY <1>1, <1>3, <1>4, Zenon DEF WithMaterial, Case

\* Associating a material returns a case.
LEMMA WithAssociationType ==
    ASSUME NEW c \in Case, NEW m \in Material,
           NEW rs \in SUBSET Requirement, NEW now \in Time
    PROVE  WithAssociation(c, m, rs, now) \in Case
<1>1. Correlate(c.requirementStates, rs, m, now) \in [Declared -> RequirementState]
  BY CorrelateType DEF Case
<1>2. \A x \in c.materials : [x EXCEPT !.requirementIds = x.requirementIds \cup rs] \in CaseMaterial
  BY DEF CaseMaterial, Case
<1>3. {IF x.materialId = m THEN [x EXCEPT !.requirementIds = x.requirementIds \cup rs]
       ELSE x : x \in c.materials} \in SUBSET CaseMaterial
  BY <1>2 DEF Case
<1>4. c.revision + 1 \in Nat \ {0}
  BY DEF Case
<1> QED
  BY <1>1, <1>3, <1>4, Zenon DEF WithAssociation, Case

-----------------------------------------------------------------------------
(* The operations keep a valid case valid, so the seal has nothing to      *)
(* refuse but an exhausted revision counter.                               *)

\* A new case is valid.
LEMMA CreatedValid ==
    ASSUME NEW t \in Tenant, NEW id \in CaseId, NEW now \in Time
    PROVE  IsValidCase(Created(t, id, now))
BY CaseAssumption
   DEF Created, IsValidCase, ValidLifecycle, ValidMaterials, ValidProjection,
       ValidCorrelation, NoTime

\* The seal lets an activation through.
LEMMA ActivatedValid ==
    ASSUME NEW c \in Case, NEW now \in Time, IsValidCase(c),
           c.state = "Draft", ClockNotBackwards(c, now), c.revision < MaxSafeInteger
    PROVE  IsValidCase(Activated(c, now))
<1> DEFINE d == Activated(c, now)
<1>1. /\ d.state = "Active" /\ d.revision = c.revision + 1
      /\ d.requirementStates = c.requirementStates /\ d.materials = c.materials
      /\ d.createdAt = c.createdAt /\ d.updatedAt = now
      /\ d.activatedAt = now /\ d.cancelledAt = c.cancelledAt
  BY DEF Activated, Case
<1> HIDE DEF d
<1>2. ValidLifecycle(d)
  BY <1>1, CaseNumbers, CaseAssumption
     DEF IsValidCase, ValidLifecycle, ClockNotBackwards, NoTime
<1>3. ValidMaterials(d) /\ ValidProjection(d) /\ ValidCorrelation(d)
  BY <1>1 DEF IsValidCase, ValidMaterials, ValidProjection, ValidCorrelation
<1> QED
  BY <1>2, <1>3 DEF IsValidCase, d

\* The seal lets a cancellation through.
LEMMA CancelledValid ==
    ASSUME NEW c \in Case, NEW now \in Time, IsValidCase(c),
           ClockNotBackwards(c, now), c.revision < MaxSafeInteger
    PROVE  IsValidCase(Cancelled(c, now))
<1> DEFINE d == Cancelled(c, now)
<1>1. /\ d.state = "Cancelled" /\ d.revision = c.revision + 1
      /\ d.requirementStates = c.requirementStates /\ d.materials = c.materials
      /\ d.createdAt = c.createdAt /\ d.updatedAt = now
      /\ d.activatedAt = c.activatedAt /\ d.cancelledAt = now
  BY DEF Cancelled, Case
<1> HIDE DEF d
<1>2. ValidLifecycle(d)
  BY <1>1, CaseNumbers, CaseAssumption
     DEF IsValidCase, ValidLifecycle, ClockNotBackwards, NoTime
<1>3. ValidMaterials(d) /\ ValidProjection(d) /\ ValidCorrelation(d)
  BY <1>1 DEF IsValidCase, ValidMaterials, ValidProjection, ValidCorrelation
<1> QED
  BY <1>2, <1>3 DEF IsValidCase, d

\* What correlating leaves in each entry of the projection.
LEMMA CorrelateEntries ==
    ASSUME NEW s, NEW rs, NEW m, NEW now, NEW r \in Declared
    PROVE  /\ r \notin rs => Correlate(s, rs, m, now)[r] = s[r]
           /\ r \in rs =>
                /\ Correlate(s, rs, m, now)[r].materialStatus = "MaterialPresent"
                /\ Correlate(s, rs, m, now)[r].materialIds = s[r].materialIds \cup {m}
                /\ Correlate(s, rs, m, now)[r].updatedAt = now
                /\ Correlate(s, rs, m, now)[r].firstMaterialAt =
                     IF s[r].firstMaterialAt = NoTime THEN now ELSE s[r].firstMaterialAt
BY DEF Correlate

\* The seal lets every admitted material through.
LEMMA WithMaterialValid ==
    ASSUME NEW t, NEW c \in Case, NEW m \in Material, NEW p \in Payload,
           NEW rs \in SUBSET Requirement, NEW now \in Time,
           AdmitsMaterial(t, c, m, rs, now), c.revision < MaxSafeInteger
    PROVE  IsValidCase(WithMaterial(c, m, p, rs, now))
<1> DEFINE d == WithMaterial(c, m, p, rs, now)
           new == [materialId |-> m, payload |-> p, requirementIds |-> rs, addedAt |-> now]
<1>1. /\ d.state = c.state /\ d.revision = c.revision + 1
      /\ d.requirementStates = Correlate(c.requirementStates, rs, m, now)
      /\ d.materials = c.materials \cup {new}
      /\ d.createdAt = c.createdAt /\ d.updatedAt = now
      /\ d.activatedAt = c.activatedAt /\ d.cancelledAt = c.cancelledAt
  BY DEF WithMaterial, Case
<1>2. /\ new.materialId = m /\ new.requirementIds = rs /\ new.addedAt = now
  OBVIOUS
<1> HIDE DEF d, new
<1>3. /\ IsValidCase(c) /\ now >= c.updatedAt /\ rs # {} /\ rs \subseteq Declared
      /\ \A x \in c.materials : x.materialId # m
  BY DEF AdmitsMaterial, IsOperable, KnownRequirements, ClockNotBackwards
<1>4. now \in Nat /\ now # NoTime
  BY CaseAssumption DEF NoTime
<1>5. ValidLifecycle(d)
  BY <1>1, <1>3, <1>4, CaseNumbers, CaseAssumption DEF IsValidCase, ValidLifecycle, NoTime
<1>6. ValidMaterials(d)
  <2>1. c.updatedAt >= c.createdAt
    BY <1>3 DEF IsValidCase, ValidLifecycle
  <2> QED
    BY <1>1, <1>2, <1>3, <1>4, <2>1, CaseNumbers DEF IsValidCase, ValidMaterials
<1>7. ValidProjection(d)
  <2> SUFFICES ASSUME NEW r \in Declared
               PROVE  LET s == d.requirementStates[r]
                      IN  /\ s.materialStatus =
                               IF s.materialIds = {} THEN "Pending" ELSE "MaterialPresent"
                          /\ s.materialIds # {} <=> s.firstMaterialAt # NoTime
                          /\ \A k \in s.materialIds :
                               \E x \in d.materials : x.materialId = k /\ r \in x.requirementIds
    BY DEF ValidProjection
  <2>1. LET s == c.requirementStates[r]
        IN  /\ s.materialStatus =
                 IF s.materialIds = {} THEN "Pending" ELSE "MaterialPresent"
            /\ s.materialIds # {} <=> s.firstMaterialAt # NoTime
            /\ \A k \in s.materialIds :
                 \E x \in c.materials : x.materialId = k /\ r \in x.requirementIds
    BY <1>3 DEF IsValidCase, ValidProjection
  <2>2. CASE r \notin rs
    BY <1>1, <2>1, <2>2, CorrelateEntries
  <2>3. CASE r \in rs
    <3>1. /\ d.requirementStates[r].materialStatus = "MaterialPresent"
          /\ d.requirementStates[r].materialIds = c.requirementStates[r].materialIds \cup {m}
          /\ d.requirementStates[r].firstMaterialAt # NoTime
      BY <1>1, <1>4, <2>3, CorrelateEntries
    <3>2. \E x \in d.materials : x.materialId = m /\ r \in x.requirementIds
      BY <1>1, <1>2, <2>3
    <3>3. \A k \in c.requirementStates[r].materialIds :
            \E x \in d.materials : x.materialId = k /\ r \in x.requirementIds
      BY <1>1, <2>1
    <3> QED
      BY <3>1, <3>2, <3>3
  <2> QED
    BY <2>2, <2>3
<1>8. ValidCorrelation(d)
  BY <1>1, <1>2, <1>3, CorrelateEntries DEF IsValidCase, ValidCorrelation
<1> QED
  BY <1>5, <1>6, <1>7, <1>8 DEF IsValidCase, d

\* The seal lets every admitted association through.
LEMMA WithAssociationValid ==
    ASSUME NEW t, NEW c \in Case, NEW m \in Material,
           NEW rs \in SUBSET Requirement, NEW now \in Time,
           AdmitsAssociation(t, c, m, rs, now), c.revision < MaxSafeInteger
    PROVE  IsValidCase(WithAssociation(c, m, rs, now))
<1> DEFINE d == WithAssociation(c, m, rs, now)
           wider(x) == [x EXCEPT !.requirementIds = x.requirementIds \cup rs]
<1>1. /\ d.state = c.state /\ d.revision = c.revision + 1
      /\ d.requirementStates = Correlate(c.requirementStates, rs, m, now)
      /\ d.materials = {IF x.materialId = m THEN wider(x) ELSE x : x \in c.materials}
      /\ d.createdAt = c.createdAt /\ d.updatedAt = now
      /\ d.activatedAt = c.activatedAt /\ d.cancelledAt = c.cancelledAt
  BY DEF WithAssociation, Case
<1>2. \A x \in c.materials :
        /\ wider(x).materialId = x.materialId /\ wider(x).addedAt = x.addedAt
        /\ wider(x).requirementIds = x.requirementIds \cup rs
  BY DEF Case, CaseMaterial
<1> HIDE DEF d, wider
<1>3. /\ IsValidCase(c) /\ now >= c.updatedAt /\ rs # {} /\ rs \subseteq Declared
      /\ \E x \in c.materials : x.materialId = m
  BY DEF AdmitsAssociation, IsOperable, KnownRequirements, ClockNotBackwards
<1>4. now \in Nat /\ now # NoTime
  BY CaseAssumption DEF NoTime
<1>5. ValidLifecycle(d)
  BY <1>1, <1>3, <1>4, CaseNumbers, CaseAssumption DEF IsValidCase, ValidLifecycle, NoTime
<1>6. \A y \in d.materials : \E x \in c.materials :
        /\ y.materialId = x.materialId /\ y.addedAt = x.addedAt
        /\ y.requirementIds = IF x.materialId = m THEN x.requirementIds \cup rs
                              ELSE x.requirementIds
        /\ y = IF x.materialId = m THEN wider(x) ELSE x
  BY <1>1, <1>2
<1>7. ValidMaterials(d)
  <2>1. \A x \in c.materials : x.requirementIds # {} /\ x.addedAt >= d.createdAt
    BY <1>1, <1>3 DEF IsValidCase, ValidMaterials
  <2>2. \A x, y \in c.materials : x.materialId = y.materialId => x = y
    BY <1>3 DEF IsValidCase, ValidMaterials
  <2>3. \A y \in d.materials : y.requirementIds # {} /\ y.addedAt >= d.createdAt
    BY <1>6, <2>1
  <2>4. ASSUME NEW y \in d.materials, NEW z \in d.materials, y.materialId = z.materialId
        PROVE  y = z
    <3>1. PICK x1 \in c.materials : /\ y.materialId = x1.materialId
                                    /\ y = IF x1.materialId = m THEN wider(x1) ELSE x1
      BY <1>6
    <3>2. PICK x2 \in c.materials : /\ z.materialId = x2.materialId
                                    /\ z = IF x2.materialId = m THEN wider(x2) ELSE x2
      BY <1>6
    <3>3. x1 = x2
      BY <2>2, <2>4, <3>1, <3>2
    <3> QED
      BY <3>1, <3>2, <3>3
  <2> QED
    BY <2>3, <2>4 DEF ValidMaterials
<1>8. \A x \in c.materials : \E y \in d.materials :
        /\ y.materialId = x.materialId
        /\ x.requirementIds \subseteq y.requirementIds
        /\ x.materialId = m => rs \subseteq y.requirementIds
  BY <1>1, <1>2
<1>9. ValidProjection(d)
  <2> SUFFICES ASSUME NEW r \in Declared
               PROVE  LET s == d.requirementStates[r]
                      IN  /\ s.materialStatus =
                               IF s.materialIds = {} THEN "Pending" ELSE "MaterialPresent"
                          /\ s.materialIds # {} <=> s.firstMaterialAt # NoTime
                          /\ \A k \in s.materialIds :
                               \E x \in d.materials : x.materialId = k /\ r \in x.requirementIds
    BY DEF ValidProjection
  <2>1. LET s == c.requirementStates[r]
        IN  /\ s.materialStatus =
                 IF s.materialIds = {} THEN "Pending" ELSE "MaterialPresent"
            /\ s.materialIds # {} <=> s.firstMaterialAt # NoTime
            /\ \A k \in s.materialIds :
                 \E x \in c.materials : x.materialId = k /\ r \in x.requirementIds
    BY <1>3 DEF IsValidCase, ValidProjection
  <2>2. CASE r \notin rs
    <3>1. d.requirementStates[r] = c.requirementStates[r]
      BY <1>1, <2>2, CorrelateEntries
    <3>2. \A k \in c.requirementStates[r].materialIds :
            \E x \in d.materials : x.materialId = k /\ r \in x.requirementIds
      BY <1>8, <2>1
    <3> QED
      BY <2>1, <3>1, <3>2
  <2>3. CASE r \in rs
    <3>1. /\ d.requirementStates[r].materialStatus = "MaterialPresent"
          /\ d.requirementStates[r].materialIds = c.requirementStates[r].materialIds \cup {m}
          /\ d.requirementStates[r].firstMaterialAt # NoTime
      BY <1>1, <1>4, <2>3, CorrelateEntries
    <3>2. \E x \in d.materials : x.materialId = m /\ r \in x.requirementIds
      BY <1>3, <1>8, <2>3
    <3>3. \A k \in c.requirementStates[r].materialIds :
            \E x \in d.materials : x.materialId = k /\ r \in x.requirementIds
      BY <1>8, <2>1
    <3> QED
      BY <3>1, <3>2, <3>3
  <2> QED
    BY <2>2, <2>3
<1>10. ValidCorrelation(d)
  <2> SUFFICES ASSUME NEW y \in d.materials, NEW r \in y.requirementIds
               PROVE  r \in Declared /\ y.materialId \in d.requirementStates[r].materialIds
    BY DEF ValidCorrelation
  <2>1. PICK x \in c.materials :
          /\ y.materialId = x.materialId
          /\ y.requirementIds = IF x.materialId = m THEN x.requirementIds \cup rs
                                ELSE x.requirementIds
    BY <1>6
  <2>2. CASE r \in x.requirementIds
    BY <1>1, <1>3, <2>1, <2>2, CorrelateEntries DEF IsValidCase, ValidCorrelation
  <2>3. CASE x.materialId = m /\ r \in rs
    BY <1>1, <1>3, <2>1, <2>3, CorrelateEntries
  <2> QED
    BY <2>1, <2>2, <2>3
<1> QED
  BY <1>5, <1>7, <1>9, <1>10 DEF IsValidCase, d

-----------------------------------------------------------------------------
(* One operation, whichever it is.                                         *)

\* An operation returns a valid case of the same tenant and id, one revision
\* later.
LEMMA OperationResult ==
    ASSUME NEW t, NEW c \in Case, NEW d, OperationStep(t, c, d)
    PROVE  /\ d \in Case /\ IsValidCase(d)
           /\ KeyOf(d) = KeyOf(c) /\ c.tenantId = t
           /\ d.revision = c.revision + 1 /\ d.createdAt = c.createdAt
<1>1. PICK now \in Time :
        \/ CanActivate(t, c, now) /\ d = Activated(c, now)
        \/ CanCancel(t, c, now) /\ d = Cancelled(c, now)
        \/ \E m \in Material, rs \in SUBSET Requirement :
             \/ \E p \in Payload : /\ CanAddMaterial(t, c, m, p, rs, now)
                                   /\ d = WithMaterial(c, m, p, rs, now)
             \/ CanAssociate(t, c, m, rs, now) /\ d = WithAssociation(c, m, rs, now)
  BY DEF OperationStep
<1>2. CASE CanActivate(t, c, now) /\ d = Activated(c, now)
  <2>1. d \in Case /\ IsValidCase(d) /\ c.tenantId = t
    BY <1>2, ActivatedType DEF CanActivate, IsOperable
  <2> QED
    BY <1>2, <2>1 DEF Activated, KeyOf, Case
<1>3. CASE CanCancel(t, c, now) /\ d = Cancelled(c, now)
  <2>1. d \in Case /\ IsValidCase(d) /\ c.tenantId = t
    BY <1>3, CancelledType DEF CanCancel, IsOperable
  <2> QED
    BY <1>3, <2>1 DEF Cancelled, KeyOf, Case
<1>4. ASSUME NEW m \in Material, NEW rs \in SUBSET Requirement, NEW p \in Payload,
             CanAddMaterial(t, c, m, p, rs, now), d = WithMaterial(c, m, p, rs, now)
      PROVE  /\ d \in Case /\ IsValidCase(d)
             /\ KeyOf(d) = KeyOf(c) /\ c.tenantId = t
             /\ d.revision = c.revision + 1 /\ d.createdAt = c.createdAt
  <2>1. d \in Case /\ IsValidCase(d) /\ c.tenantId = t
    BY <1>4, WithMaterialType DEF CanAddMaterial, AdmitsMaterial, IsOperable
  <2> QED
    BY <1>4, <2>1 DEF WithMaterial, KeyOf, Case
<1>5. ASSUME NEW m \in Material, NEW rs \in SUBSET Requirement,
             CanAssociate(t, c, m, rs, now), d = WithAssociation(c, m, rs, now)
      PROVE  /\ d \in Case /\ IsValidCase(d)
             /\ KeyOf(d) = KeyOf(c) /\ c.tenantId = t
             /\ d.revision = c.revision + 1 /\ d.createdAt = c.createdAt
  <2>1. d \in Case /\ IsValidCase(d) /\ c.tenantId = t
    BY <1>5, WithAssociationType DEF CanAssociate, AdmitsAssociation, IsOperable
  <2> QED
    BY <1>5, <2>1 DEF WithAssociation, KeyOf, Case
<1> QED
  BY <1>1, <1>2, <1>3, <1>4, <1>5

\* Some operation by writer w on the case it holds.
Operate(w) ==
    /\ MayOperate(w)
    /\ \E t \in Tenant : OperationStep(t, hand[w], hand'[w])
    /\ hand' = [hand EXCEPT ![w] = hand'[w]]
    /\ UNCHANGED <<store, base>>

\* A writer's step reads, creates, operates or saves.
LEMMA StepCases ==
    ASSUME TypeOK, NEW w \in Writer, Step(w)
    PROVE  \/ Save(w)
           \/ \E t \in Tenant, id \in CaseId : Get(w, t, id)
           \/ \E t \in Tenant, id \in CaseId, now \in Time : Create(w, t, id, now)
           \/ Operate(w)
<1>1. DOMAIN hand = Writer
  BY DEF TypeOK
<1>2. ASSUME NEW t \in Tenant, NEW now \in Time, Activate(w, t, now)
      PROVE  Operate(w)
  BY <1>1, <1>2 DEF Activate, Operate, OperationStep
<1>3. ASSUME NEW t \in Tenant, NEW now \in Time, Cancel(w, t, now)
      PROVE  Operate(w)
  BY <1>1, <1>3 DEF Cancel, Operate, OperationStep
<1>4. ASSUME NEW t \in Tenant, NEW now \in Time, NEW m \in Material,
             NEW rs \in SUBSET Requirement, NEW p \in Payload,
             AddMaterial(w, t, m, p, rs, now)
      PROVE  Operate(w)
  BY <1>1, <1>4 DEF AddMaterial, Operate, OperationStep
<1>5. ASSUME NEW t \in Tenant, NEW now \in Time, NEW m \in Material,
             NEW rs \in SUBSET Requirement, Associate(w, t, m, rs, now)
      PROVE  Operate(w)
  BY <1>1, <1>5 DEF Associate, Operate, OperationStep
<1> QED
  BY <1>2, <1>3, <1>4, <1>5 DEF Step

\* And leaves what the other writers hold alone.
LEMMA StepKeepsOthers ==
    ASSUME TypeOK, NEW w \in Writer, Step(w), NEW v \in Writer, v # w
    PROVE  base'[v] = base[v] /\ hand'[v] = hand[v]
<1>1. base \in [Writer -> Case \cup {NoCase}] /\ hand \in [Writer -> Case \cup {NoCase}]
  BY DEF TypeOK
<1>2. CASE Save(w)
  BY <1>1, <1>2 DEF Save
<1>3. ASSUME NEW t \in Tenant, NEW id \in CaseId, Get(w, t, id)
      PROVE  base'[v] = base[v] /\ hand'[v] = hand[v]
  BY <1>1, <1>3 DEF Get
<1>4. ASSUME NEW t \in Tenant, NEW id \in CaseId, NEW now \in Time, Create(w, t, id, now)
      PROVE  base'[v] = base[v] /\ hand'[v] = hand[v]
  BY <1>1, <1>4 DEF Create
<1>5. CASE Operate(w)
  BY <1>1, <1>5 DEF Operate
<1> QED
  BY <1>2, <1>3, <1>4, <1>5, StepCases

-----------------------------------------------------------------------------
(* Type correctness.                                                       *)

\* A writer's step leaves every value of its type.
LEMMA TypeStep ==
    ASSUME TypeOK, [Next]_vars
    PROVE  TypeOK'
<1>1. CASE UNCHANGED vars
  BY <1>1 DEF vars, TypeOK
<1>2. ASSUME NEW w \in Writer, Save(w) PROVE TypeOK'
  BY <1>2 DEF Save, TypeOK
<1>3. ASSUME NEW w \in Writer, NEW t \in Tenant, NEW id \in CaseId, Get(w, t, id)
      PROVE  TypeOK'
  BY <1>3 DEF Get, TypeOK, Key
<1>4. ASSUME NEW w \in Writer, NEW t \in Tenant, NEW id \in CaseId, NEW now \in Time,
             Create(w, t, id, now)
      PROVE  TypeOK'
  BY <1>4, CreatedType DEF Create, TypeOK
<1>5. ASSUME NEW w \in Writer, Operate(w) PROVE TypeOK'
  <2>1. hand[w] \in Case
    BY <1>5 DEF Operate, MayOperate, TypeOK
  <2>2. hand'[w] \in Case
    BY <1>5, <2>1, OperationResult DEF Operate
  <2> QED
    BY <1>5, <2>2 DEF Operate, TypeOK
<1> QED
  BY <1>1, <1>2, <1>3, <1>4, <1>5, StepCases DEF Next

\* The store, and what every writer read and holds, are always cases or
\* nothing: no operation and no save produces anything else.
THEOREM TypeCorrect == Spec => []TypeOK
<1>1. Init => TypeOK
  BY DEF Init, TypeOK
<1> QED
  BY <1>1, TypeStep, PTL DEF Spec

\* sealed() refuses nothing the guards of addMaterial and associate admit, in
\* any reachable state and for every clock reading, while the revision counter
\* has room.
THEOREM SealTheorem == Spec => []SealNeverRefuses
<1>1. TypeOK => SealNeverRefuses
  BY WithMaterialValid, WithAssociationValid
     DEF TypeOK, SealNeverRefuses, CanAddMaterial, CanAssociate
<1> QED
  BY <1>1, TypeCorrect, PTL

\* What is stored is valid, and under its own tenant and case id.
StoreValid ==
    \A k \in Key : store[k] # NoCase => IsValidCase(store[k]) /\ KeyOf(store[k]) = k

\* A save stores what the validator admitted, under its own key.
LEMMA StoreValidStep ==
    ASSUME TypeOK, StoreValid, [Next]_vars
    PROVE  StoreValid'
<1>1. CASE UNCHANGED store
  BY <1>1 DEF StoreValid
<1>2. ASSUME NEW w \in Writer, Save(w) PROVE StoreValid'
  BY <1>2 DEF Save, StoreValid, TypeOK
<1>3. UNCHANGED store \/ \E w \in Writer : Save(w)
  BY StepCases DEF Next, vars, Get, Create, Operate
<1> QED
  BY <1>1, <1>2, <1>3

-----------------------------------------------------------------------------
(* With one operation per save the repository is an atomic register.       *)

\* Where a writer's value comes from: it is a new case, or at most one
\* operation away from a value the store held, which is still stored or was
\* replaced by one of a later revision.  This is what makes comparing revisions
\* enough: equal revisions of one case are equal values.
Lineage(w) ==
    LET c == hand[w]
        b == base[w]
        k == KeyOf(c)
    IN  c # NoCase =>
          IF b = NoCase
          THEN \E now \in Time : /\ CanCreate(c.tenantId, c.caseId, now)
                                 /\ c = Created(c.tenantId, c.caseId, now)
          ELSE /\ KeyOf(b) = k
               /\ c = b \/ OperationStep(c.tenantId, b, c)
               /\ store[k] # NoCase
               /\ store[k] = b \/ b.revision < store[k].revision

LineageInv ==
    /\ TypeOK
    /\ StoreValid
    /\ \A w \in Writer : Lineage(w)

\* A save that succeeds stores a new case or one operation on the stored case.
LEMMA SaveIsRegisterStep ==
    ASSUME LineageInv, NEW w \in Writer, Save(w)
    PROVE  LET k == KeyOf(hand[w])
           IN  /\ k \in Key /\ store'[k] = hand[w] /\ store[k] = base[w]
               /\ \/ store[k] = NoCase /\ base[w] = NoCase
                  \/ store[k] # NoCase /\ OperationStep(k[1], store[k], hand[w])
<1> DEFINE c == hand[w]
           k == KeyOf(c)
<1>1. c \in Case /\ k \in Key /\ k[1] = c.tenantId /\ store[k] \in Case \cup {NoCase}
  BY DEF Save, LineageInv, TypeOK, KeyOf, Key, Case
<1>2. store'[k] = c
  BY <1>1 DEF Save, LineageInv, TypeOK
<1>3. Lineage(w) /\ c # NoCase /\ RevisionAdmits(store[k], c)
  BY DEF LineageInv, Save
<1>4. CASE base[w] = NoCase
  <2>1. c.revision = 1
    BY <1>3, <1>4, CreatedFields DEF Lineage
  <2> QED
    BY <1>1, <1>2, <1>3, <1>4, <2>1 DEF RevisionAdmits
<1>5. CASE base[w] # NoCase
  <2>1. /\ c = base[w] \/ OperationStep(c.tenantId, base[w], c)
        /\ store[k] # NoCase
        /\ store[k] = base[w] \/ base[w].revision < store[k].revision
    BY <1>3, <1>5 DEF Lineage
  <2>2. c.revision = store[k].revision + 1
    BY <1>3, <2>1 DEF RevisionAdmits
  <2>3. base[w] \in Case /\ store[k] \in Case
    BY <1>1, <1>5, <2>1 DEF LineageInv, TypeOK
  <2>4. c # base[w]
    BY <2>1, <2>2, <2>3 DEF Case
  <2>5. c.revision = base[w].revision + 1
    BY <2>1, <2>3, <2>4, OperationResult
  <2>6. store[k] = base[w]
    BY <2>1, <2>2, <2>3, <2>5 DEF Case
  <2> QED
    BY <1>1, <1>2, <2>1, <2>4, <2>6
<1> QED
  BY <1>4, <1>5

\* An operation, which a writer may apply only to what it has saved or read, starts
\* from the writer's base.
LEMMA OperatesOnBase ==
    ASSUME OpsPerSave = 1, LineageInv, NEW w \in Writer, MayOperate(w)
    PROVE  base[w] # NoCase /\ base[w] \in Case /\ hand[w] = base[w]
<1>1. hand[w] # NoCase /\ hand[w].revision < BaseRevision(w) + 1
  BY DEF MayOperate
<1>2. hand[w] \in Case /\ Lineage(w)
  BY <1>1 DEF LineageInv, TypeOK
<1>3. base[w] # NoCase
  <2>1. base[w] = NoCase => hand[w].revision = 1
    BY <1>1, <1>2, CreatedFields DEF Lineage
  <2> QED
    BY <1>1, <2>1 DEF BaseRevision
<1>4. base[w] \in Case
  BY <1>3 DEF LineageInv, TypeOK
<1>5. hand[w] # base[w] => hand[w].revision = base[w].revision + 1
  BY <1>1, <1>2, <1>3, <1>4, OperationResult DEF Lineage
<1>6. hand[w].revision < base[w].revision + 1
  BY <1>1, <1>3 DEF BaseRevision
<1> QED
  BY <1>3, <1>4, <1>5, <1>6 DEF Case

\* A step leaves the lineage of every writer known.
LEMMA LineageStep ==
    ASSUME OpsPerSave = 1, LineageInv, [Next]_vars
    PROVE  LineageInv'
<1> SUFFICES ASSUME NEW v \in Writer
             PROVE  Lineage(v)'
  BY TypeStep, StoreValidStep DEF LineageInv
<1> USE DEF LineageInv
<1>1. CASE UNCHANGED vars
  BY <1>1 DEF vars, Lineage
<1>2. ASSUME NEW w \in Writer, Save(w) PROVE Lineage(v)'
  <2> DEFINE k == KeyOf(hand[w])
  <2>1. /\ k \in Key /\ store'[k] = hand[w] /\ hand[w] \in Case
        /\ \A j \in Key : j # k => store'[j] = store[j]
        /\ hand' = hand /\ base' = [base EXCEPT ![w] = hand[w]]
    BY <1>2, SaveIsRegisterStep DEF Save, TypeOK
  <2>2. CASE v = w
    BY <2>1, <2>2 DEF Lineage, TypeOK
  <2>3. CASE v # w
    <3>1. base'[v] = base[v] /\ hand'[v] = hand[v] /\ Lineage(v)
      BY <2>1, <2>3 DEF TypeOK
    <3>2. CASE hand[v] = NoCase \/ base[v] = NoCase
      BY <3>1, <3>2 DEF Lineage
    <3>3. CASE hand[v] # NoCase /\ base[v] # NoCase /\ KeyOf(hand[v]) # k
      <4>1. KeyOf(hand[v]) \in Key
        BY <3>3 DEF TypeOK, KeyOf, Key, Case
      <4> QED
        BY <2>1, <3>1, <3>3, <4>1 DEF Lineage
    <3>4. CASE hand[v] # NoCase /\ base[v] # NoCase /\ KeyOf(hand[v]) = k
      <4>1. /\ store[k] # NoCase
            /\ store[k] = base[v] \/ base[v].revision < store[k].revision
        BY <3>1, <3>4 DEF Lineage
      <4>2. store[k] \in Case /\ base[v] \in Case
        BY <2>1, <3>4, <4>1 DEF TypeOK
      <4>3. hand[w].revision = store[k].revision + 1
        BY <1>2, <4>1 DEF Save, RevisionAdmits
      <4>4. base[v].revision < store'[k].revision
        BY <2>1, <4>1, <4>2, <4>3 DEF Case
      <4>5. store'[k] # NoCase
        BY <2>1, CaseAssumption
      <4> QED
        BY <3>1, <3>4, <4>4, <4>5 DEF Lineage
    <3> QED
      BY <3>2, <3>3, <3>4
  <2> QED
    BY <2>2, <2>3
<1>3. ASSUME NEW w \in Writer, NEW t \in Tenant, NEW id \in CaseId, Get(w, t, id)
      PROVE  Lineage(v)'
  <2>1. CASE v = w
    <3>1. <<t, id>> \in Key /\ KeyOf(store[<<t, id>>]) = <<t, id>>
      BY <1>3 DEF Get, StoreValid, Key
    <3>2. /\ base'[v] = store[<<t, id>>] /\ hand'[v] = store[<<t, id>>]
          /\ store' = store /\ store[<<t, id>>] # NoCase
      BY <1>3, <2>1 DEF Get, TypeOK
    <3> QED
      BY <3>1, <3>2 DEF Lineage
  <2>2. CASE v # w
    <3>1. base'[v] = base[v] /\ hand'[v] = hand[v] /\ store' = store
      BY <1>3, <2>2 DEF Get, TypeOK
    <3> QED
      BY <3>1 DEF Lineage
  <2> QED
    BY <2>1, <2>2
<1>4. ASSUME NEW w \in Writer, NEW t \in Tenant, NEW id \in CaseId, NEW now \in Time,
             Create(w, t, id, now)
      PROVE  Lineage(v)'
  <2>1. CASE v = w
    <3>1. base'[v] = NoCase /\ hand'[v] = Created(t, id, now) /\ CanCreate(t, id, now)
      BY <1>4, <2>1 DEF Create, TypeOK
    <3>2. Created(t, id, now).tenantId = t /\ Created(t, id, now).caseId = id
      BY CreatedFields
    <3> QED
      BY <3>1, <3>2 DEF Lineage
  <2>2. CASE v # w
    <3>1. base'[v] = base[v] /\ hand'[v] = hand[v] /\ store' = store
      BY <1>4, <2>2 DEF Create, TypeOK
    <3> QED
      BY <3>1 DEF Lineage
  <2> QED
    BY <2>1, <2>2
<1>5. ASSUME NEW w \in Writer, Operate(w) PROVE Lineage(v)'
  <2>1. CASE v = w
    <3>1. base' = base /\ store' = store /\ hand[w] # NoCase
      BY <1>5 DEF Operate, MayOperate
    <3>2. hand[w] \in Case /\ Lineage(w)
      BY <3>1 DEF TypeOK
    <3>3. PICK t \in Tenant : OperationStep(t, hand[w], hand'[w])
      BY <1>5 DEF Operate
    <3>4. /\ hand'[w] \in Case /\ KeyOf(hand'[w]) = KeyOf(hand[w])
          /\ hand[w].tenantId = t /\ hand'[w].tenantId = t
      <4>1. /\ hand'[w] \in Case /\ KeyOf(hand'[w]) = KeyOf(hand[w])
            /\ hand[w].tenantId = t
        BY <3>2, <3>3, OperationResult
      <4> QED
        BY <4>1 DEF KeyOf
    <3>5. base[w] # NoCase /\ hand[w] = base[w]
      BY <1>5, OperatesOnBase DEF Operate
    <3> QED
      BY <2>1, <3>1, <3>2, <3>3, <3>4, <3>5 DEF Lineage
  <2>2. CASE v # w
    <3>1. base'[v] = base[v] /\ hand'[v] = hand[v] /\ store' = store
      BY <1>5, <2>2 DEF Operate, TypeOK
    <3> QED
      BY <3>1 DEF Lineage
  <2> QED
    BY <2>1, <2>2
<1> QED
  BY <1>1, <1>2, <1>3, <1>4, <1>5, StepCases DEF Next

\* The lineage of every writer is known in every reachable state.
THEOREM LineageTheorem ==
    ASSUME OpsPerSave = 1
    PROVE  Spec => []LineageInv
<1>1. Init => LineageInv
  BY DEF Init, LineageInv, TypeOK, StoreValid, Lineage
<1> QED
  BY <1>1, LineageStep, PTL DEF Spec

\* The abstract register runs the same operations.
LEMMA SameOperations ==
    ASSUME NEW t, NEW id, NEW c, NEW d, NEW now
    PROVE  /\ OperationStep(t, c, d) => Register!OperationStep(t, c, d)
           /\ CanCreate(t, id, now) => Register!CanCreate(t, id, now)
           /\ Created(t, id, now) = Register!Created(t, id, now)
<1> USE DEF Created, Register!Created, IsValidCase, Register!IsValidCase,
        ValidLifecycle, Register!ValidLifecycle, ValidMaterials, Register!ValidMaterials,
        ValidProjection, Register!ValidProjection, ValidCorrelation, Register!ValidCorrelation,
        NoTime, Register!NoTime
<1>1. CanCreate(t, id, now) => Register!CanCreate(t, id, now)
  BY DEF CanCreate, Register!CanCreate
<1>2. Created(t, id, now) = Register!Created(t, id, now)
  OBVIOUS
<1>3. OperationStep(t, c, d) => Register!OperationStep(t, c, d)
  BY DEF OperationStep, Register!OperationStep, IsOperable, Register!IsOperable,
       ClockNotBackwards, Register!ClockNotBackwards,
       AllowedTransition, Register!AllowedTransition,
       AcceptsMaterial, Register!AcceptsMaterial,
       KnownRequirements, Register!KnownRequirements,
       Correlate, Register!Correlate,
       Activated, Register!Activated, CanActivate, Register!CanActivate,
       Cancelled, Register!Cancelled, CanCancel, Register!CanCancel,
       WithMaterial, Register!WithMaterial, CanAddMaterial, Register!CanAddMaterial,
       AdmitsMaterial, Register!AdmitsMaterial,
       WithAssociation, Register!WithAssociation, CanAssociate, Register!CanAssociate,
       AdmitsAssociation, Register!AdmitsAssociation
<1> QED
  BY <1>1, <1>2, <1>3

\* A step of the writers is a step of the register, or leaves the store alone.
LEMMA RegisterStep ==
    ASSUME LineageInv, [Next]_vars
    PROVE  [Register!Next]_store
<1> SUFFICES ASSUME ~ UNCHANGED store
             PROVE  Register!Next
  OBVIOUS
<1>1. PICK w \in Writer : Save(w)
  BY StepCases DEF LineageInv, Next, vars, Get, Create, Operate
<1> DEFINE k == KeyOf(hand[w])
<1>2. /\ k \in Key /\ store'[k] = hand[w] /\ store' = [store EXCEPT ![k] = hand[w]]
      /\ \/ store[k] = NoCase /\ base[w] = NoCase
         \/ store[k] # NoCase /\ OperationStep(k[1], store[k], hand[w])
  BY <1>1, SaveIsRegisterStep DEF Save
<1>3. k[1] = hand[w].tenantId /\ k[2] = hand[w].caseId
  BY DEF KeyOf
<1>4. CASE store[k] # NoCase /\ OperationStep(k[1], store[k], hand[w])
  <2>1. Register!OperationStep(k[1], store[k], store'[k])
    BY <1>2, <1>4, SameOperations
  <2> QED
    BY <1>2, <1>4, <2>1 DEF Register!Next, Register!Operate, Register!Key, Key
<1>5. CASE store[k] = NoCase /\ base[w] = NoCase
  <2>1. PICK now \in Time : CanCreate(k[1], k[2], now) /\ hand[w] = Created(k[1], k[2], now)
    BY <1>1, <1>3, <1>5 DEF LineageInv, Lineage, Save
  <2>2. Register!CanCreate(k[1], k[2], now) /\ hand[w] = Register!Created(k[1], k[2], now)
    BY <2>1, SameOperations
  <2> QED
    BY <1>2, <1>5, <2>2 DEF Register!Next, Register!Create, Register!Key, Key
<1> QED
  BY <1>2, <1>4, <1>5

\* The register starts where the repository does.
LEMMA RegisterInit ==
    ASSUME Init
    PROVE  Register!Init
BY DEF Init, Register!Init, Key, Register!Key

\* With one operation per save, the repository under any number of writers
\* implements the register: concurrent writers lose no committed operation.
THEOREM Refinement ==
    ASSUME OpsPerSave = 1
    PROVE  Spec => ImplementsRegister
BY RegisterInit, RegisterStep, LineageTheorem, PTL DEF Spec, ImplementsRegister, Register!Spec

-----------------------------------------------------------------------------
(* What the register's steps never do.                                     *)

\* An operation applies to a case that is not cancelled, and keeps its
\* materials.
LEMMA OperationKeeps ==
    ASSUME NEW t, NEW c \in Case, NEW d, OperationStep(t, c, d)
    PROVE  c.state # "Cancelled" /\ \A x \in c.materials : Retains(d, x)
<1>1. ASSUME NEW now \in Time, CanActivate(t, c, now), d = Activated(c, now)
      PROVE  c.state # "Cancelled" /\ \A x \in c.materials : Retains(d, x)
  <2>1. d.materials = c.materials
    BY <1>1 DEF Activated, Case
  <2> QED
    BY <1>1, <2>1 DEF CanActivate, AllowedTransition, Retains
<1>2. ASSUME NEW now \in Time, CanCancel(t, c, now), d = Cancelled(c, now)
      PROVE  c.state # "Cancelled" /\ \A x \in c.materials : Retains(d, x)
  <2>1. d.materials = c.materials
    BY <1>2 DEF Cancelled, Case
  <2> QED
    BY <1>2, <2>1 DEF CanCancel, AllowedTransition, Retains
<1>3. ASSUME NEW now \in Time, NEW m \in Material, NEW rs \in SUBSET Requirement,
             NEW p \in Payload, CanAddMaterial(t, c, m, p, rs, now),
             d = WithMaterial(c, m, p, rs, now)
      PROVE  c.state # "Cancelled" /\ \A x \in c.materials : Retains(d, x)
  <2>1. c.materials \subseteq d.materials
    BY <1>3 DEF WithMaterial, Case
  <2> QED
    BY <1>3, <2>1 DEF CanAddMaterial, AdmitsMaterial, AcceptsMaterial, Retains
<1>4. ASSUME NEW now \in Time, NEW m \in Material, NEW rs \in SUBSET Requirement,
             CanAssociate(t, c, m, rs, now), d = WithAssociation(c, m, rs, now)
      PROVE  c.state # "Cancelled" /\ \A x \in c.materials : Retains(d, x)
  <2>1. d.materials = {IF x.materialId = m
                       THEN [x EXCEPT !.requirementIds = x.requirementIds \cup rs]
                       ELSE x : x \in c.materials}
    BY <1>4 DEF WithAssociation, Case
  <2>2. ASSUME NEW x \in c.materials PROVE Retains(d, x)
    <3> DEFINE y == [x EXCEPT !.requirementIds = x.requirementIds \cup rs]
    <3>1. /\ y.materialId = x.materialId /\ y.payload = x.payload
          /\ y.addedAt = x.addedAt /\ x.requirementIds \subseteq y.requirementIds
      BY DEF Case, CaseMaterial
    <3>2. y \in d.materials \/ x \in d.materials
      BY <2>1
    <3> HIDE DEF y
    <3> QED
      BY <3>1, <3>2 DEF Retains
  <2> QED
    BY <1>4, <2>2 DEF CanAssociate, AdmitsAssociation, AcceptsMaterial
<1> QED
  BY <1>1, <1>2, <1>3, <1>4 DEF OperationStep

\* A step of the system leaves every stored case alone or operates on it once.
LEMMA StoredCaseSteps ==
    ASSUME LineageInv, [Next]_vars, NEW k \in Key, store[k] # NoCase
    PROVE  /\ store[k] \in Case
           /\ store'[k] = store[k] \/ OperationStep(k[1], store[k], store'[k])
<1>1. store[k] \in Case
  BY DEF LineageInv, TypeOK
<1>2. ASSUME NEW w \in Writer, Save(w)
      PROVE  store'[k] = store[k] \/ OperationStep(k[1], store[k], store'[k])
  <2>1. CASE k = KeyOf(hand[w])
    BY <1>2, <2>1, SaveIsRegisterStep
  <2>2. CASE k # KeyOf(hand[w])
    BY <1>2, <2>2 DEF Save, LineageInv, TypeOK
  <2> QED
    BY <2>1, <2>2
<1>3. UNCHANGED store \/ \E w \in Writer : Save(w)
  BY StepCases DEF LineageInv, Next, vars, Get, Create, Operate
<1> QED
  BY <1>1, <1>2, <1>3

\* No later save drops a stored material or narrows what it answers, however
\* many writers race, when each saves after every operation.
THEOREM CommittedMaterialTheorem ==
    ASSUME OpsPerSave = 1
    PROVE  Spec => CommittedMaterialKept
<1>1. LineageInv /\ [Next]_vars =>
        [\A k \in Key : store[k] # NoCase =>
           \A x \in store[k].materials : Retains(store'[k], x)]_vars
  <2> SUFFICES ASSUME LineageInv, [Next]_vars, NEW k \in Key, store[k] # NoCase,
                      NEW x \in store[k].materials
               PROVE  Retains(store'[k], x)
    OBVIOUS
  <2>1. CASE store'[k] = store[k]
    BY <2>1 DEF Retains
  <2>2. CASE OperationStep(k[1], store[k], store'[k])
    BY <2>2, StoredCaseSteps, OperationKeeps
  <2> QED
    BY <2>1, <2>2, StoredCaseSteps
<1> QED
  BY <1>1, LineageTheorem, PTL DEF Spec, CommittedMaterialKept

\* A case stored as cancelled stays exactly as it is.
THEOREM CancelledTheorem ==
    ASSUME OpsPerSave = 1
    PROVE  Spec => CancelledIsTerminal
<1>1. LineageInv /\ [Next]_vars =>
        [\A k \in Key : store[k] # NoCase /\ store[k].state = "Cancelled" =>
           store'[k] = store[k]]_vars
  BY StoredCaseSteps, OperationKeeps
<1> QED
  BY <1>1, LineageTheorem, PTL DEF Spec, CancelledIsTerminal

-----------------------------------------------------------------------------
(* What a writer can rely on when others apply many operations per save.   *)

\* The same discipline-free lineage: a value one revision past its base is one
\* operation away from it, and the base is still stored or was replaced by
\* later revisions.  A value further away from its base may be anything.
Draft(w) ==
    LET c == hand[w]
        b == base[w]
        k == KeyOf(c)
    IN  c # NoCase /\ b # NoCase =>
          /\ KeyOf(b) = k
          /\ c.revision >= b.revision
          /\ c.revision = b.revision => c = b
          /\ c.revision = b.revision + 1 => OperationStep(c.tenantId, b, c)
          /\ store[k] # NoCase
          /\ store[k] = b \/ b.revision < store[k].revision

DraftInv ==
    /\ TypeOK
    /\ StoreValid
    /\ \A w \in Writer : Draft(w)

\* A save replaces what its writer read exactly if the writer saves one
\* operation; such a save never follows a cancellation and keeps every stored
\* material.  A save of more operations always replaces a revision the writer
\* has not seen.
OneOperationSavesLoseNothing ==
    [][\A w \in Writer : Save(w) =>
         LET k == KeyOf(hand[w])
         IN  /\ hand[w].revision = BaseRevision(w) + 1 <=> store[k] = base[w]
             /\ store[k] = base[w] /\ store[k] # NoCase =>
                  /\ store[k].state # "Cancelled"
                  /\ \A x \in store[k].materials : Retains(store'[k], x)]_vars

\* A save replaces a stored revision by the next one.
LEMMA SaveAdvances ==
    ASSUME TypeOK, NEW w \in Writer, Save(w)
    PROVE  LET k == KeyOf(hand[w])
           IN  /\ hand[w] \in Case /\ k \in Key
               /\ store' = [store EXCEPT ![k] = hand[w]] /\ store'[k] = hand[w]
               /\ store[k] = NoCase => hand[w].revision = 1
               /\ store[k] # NoCase => /\ store[k] \in Case
                                       /\ hand[w].revision = store[k].revision + 1
<1> DEFINE c == hand[w]
           k == KeyOf(c)
<1>1. c \in Case /\ k \in Key /\ store[k] \in Case \cup {NoCase}
  BY DEF Save, TypeOK, KeyOf, Key, Case
<1>2. store' = [store EXCEPT ![k] = c] /\ store'[k] = c
  BY <1>1 DEF Save, TypeOK
<1>3. /\ store[k] = NoCase => c.revision = 1
      /\ store[k] # NoCase => c.revision = store[k].revision + 1
  BY DEF Save, RevisionAdmits
<1> QED
  BY <1>1, <1>2, <1>3

\* A step of the system leaves every stored case alone or replaces it by its next
\* revision, whatever the writers do.
LEMMA StoreAdvances ==
    ASSUME TypeOK, [Next]_vars, NEW k \in Key, store[k] # NoCase
    PROVE  /\ store[k] \in Case
           /\ \/ store'[k] = store[k]
              \/ store'[k] \in Case /\ store'[k].revision = store[k].revision + 1
<1>1. store[k] \in Case
  BY DEF TypeOK
<1>2. ASSUME NEW w \in Writer, Save(w)
      PROVE  \/ store'[k] = store[k]
             \/ store'[k] \in Case /\ store'[k].revision = store[k].revision + 1
  <2>1. CASE k = KeyOf(hand[w])
    BY <1>2, <2>1, SaveAdvances
  <2>2. CASE k # KeyOf(hand[w])
    BY <1>2, <2>2, SaveAdvances DEF TypeOK
  <2> QED
    BY <2>1, <2>2
<1>3. UNCHANGED store \/ \E w \in Writer : Save(w)
  BY StepCases DEF Next, vars, Get, Create, Operate
<1> QED
  BY <1>1, <1>2, <1>3

\* What another writer saves leaves a draft a draft.
LEMMA SaveKeepsDraft ==
    ASSUME DraftInv, NEW w \in Writer, Save(w), NEW v \in Writer, v # w
    PROVE  Draft(v)'
<1> DEFINE c == hand[v]
           b == base[v]
           k == KeyOf(c)
<1>1. base'[v] = b /\ hand'[v] = c
  BY DEF Save, DraftInv, TypeOK
<1> SUFFICES ASSUME c # NoCase, b # NoCase
             PROVE  store'[k] # NoCase /\ (store'[k] = b \/ b.revision < store'[k].revision)
  BY <1>1 DEF Draft, DraftInv
<1>2. c \in Case /\ b \in Case /\ k \in Key
  BY DEF DraftInv, TypeOK, KeyOf, Key, Case
<1>3. /\ store[k] # NoCase /\ store[k] \in Case
      /\ store[k] = b \/ b.revision < store[k].revision
  BY <1>2 DEF DraftInv, Draft, TypeOK
<1>4. CASE KeyOf(hand[w]) = k
  <2>1. store'[k] \in Case /\ store'[k].revision = store[k].revision + 1
    BY <1>3, <1>4, SaveAdvances DEF DraftInv
  <2>2. b.revision < store'[k].revision
    BY <1>2, <1>3, <2>1, CaseNumbers
  <2> QED
    BY <2>1, <2>2, CaseAssumption
<1>5. CASE KeyOf(hand[w]) # k
  <2>1. store'[k] = store[k]
    BY <1>2, <1>5, SaveAdvances DEF DraftInv, TypeOK
  <2> QED
    BY <1>3, <2>1
<1> QED
  BY <1>4, <1>5

\* Every step leaves every draft a draft.
LEMMA DraftStep ==
    ASSUME DraftInv, [Next]_vars
    PROVE  DraftInv'
<1>1. TypeOK' /\ StoreValid'
  BY TypeStep, StoreValidStep DEF DraftInv
<1> SUFFICES ASSUME NEW v \in Writer
             PROVE  Draft(v)'
  BY <1>1 DEF DraftInv
<1>2. TypeOK /\ Draft(v)
  BY DEF DraftInv
<1>3. CASE UNCHANGED vars
  BY <1>2, <1>3 DEF vars, Draft
<1>4. ASSUME NEW w \in Writer, Step(w)
      PROVE  Draft(v)'
  <2>1. CASE v = w /\ Save(w)
    <3>1. /\ hand'[v] = hand[v] /\ base'[v] = hand[v] /\ hand[v] \in Case
          /\ store'[KeyOf(hand[v])] = hand[v]
      BY <1>2, <2>1, SaveAdvances DEF Save, TypeOK
    <3> QED
      BY <3>1, CaseNumbers DEF Draft
  <2>2. ASSUME v = w, NEW t \in Tenant, NEW id \in CaseId, Get(w, t, id)
        PROVE  Draft(v)'
    <3>1. <<t, id>> \in Key /\ store' = store
      BY <2>2 DEF Get, Key
    <3>2. /\ base'[v] = store[<<t, id>>] /\ hand'[v] = store[<<t, id>>]
          /\ store[<<t, id>>] # NoCase /\ store[<<t, id>>] \in Case
      BY <1>2, <2>2, <3>1 DEF Get, TypeOK
    <3>3. KeyOf(store[<<t, id>>]) = <<t, id>>
      BY <3>1, <3>2 DEF DraftInv, StoreValid
    <3> QED
      BY <3>1, <3>2, <3>3, CaseNumbers DEF Draft
  <2>3. ASSUME v = w, NEW t \in Tenant, NEW id \in CaseId, NEW now \in Time,
               Create(w, t, id, now)
        PROVE  Draft(v)'
    <3>1. base'[v] = NoCase
      BY <1>2, <2>3 DEF Create, TypeOK
    <3> QED
      BY <3>1 DEF Draft
  <2>4. CASE v = w /\ Operate(w)
    <3> DEFINE c == hand[v]
               b == base[v]
               d == hand'[v]
    <3>1. base' = base /\ store' = store /\ c # NoCase /\ c \in Case
      BY <1>2, <2>4 DEF Operate, MayOperate, TypeOK
    <3>2. PICK t \in Tenant : OperationStep(t, c, d)
      BY <2>4 DEF Operate
    <3>3. d \in Case /\ KeyOf(d) = KeyOf(c) /\ c.tenantId = t /\ d.revision = c.revision + 1
      BY <3>1, <3>2, OperationResult
    <3>4. d.tenantId = t
      BY <3>3 DEF KeyOf
    <3> SUFFICES ASSUME b # NoCase
                 PROVE  /\ KeyOf(b) = KeyOf(d)
                        /\ d.revision >= b.revision /\ d.revision # b.revision
                        /\ d.revision = b.revision + 1 => OperationStep(d.tenantId, b, d)
                        /\ store[KeyOf(d)] # NoCase
                        /\ store[KeyOf(d)] = b \/ b.revision < store[KeyOf(d)].revision
      BY <3>1 DEF Draft
    <3>5. b \in Case
      BY <1>2 DEF TypeOK
    <3>6. /\ KeyOf(b) = KeyOf(d) /\ store[KeyOf(d)] # NoCase
          /\ store[KeyOf(d)] = b \/ b.revision < store[KeyOf(d)].revision
          /\ c.revision >= b.revision /\ (c.revision = b.revision => c = b)
      BY <1>2, <3>1, <3>3 DEF Draft
    <3>7. c.revision \in Nat /\ b.revision \in Nat
      BY <3>1, <3>5, CaseNumbers
    <3>8. d.revision >= b.revision /\ d.revision # b.revision
      BY <3>3, <3>6, <3>7
    <3>9. d.revision = b.revision + 1 => c = b
      BY <3>3, <3>6, <3>7
    <3> QED
      BY <3>2, <3>4, <3>6, <3>8, <3>9
  <2>5. CASE v # w /\ Save(w)
    BY <2>5, SaveKeepsDraft
  <2>6. CASE v # w /\ store' = store
    <3>1. base'[v] = base[v] /\ hand'[v] = hand[v]
      BY <1>2, <1>4, <2>6, StepKeepsOthers
    <3> QED
      BY <1>2, <2>6, <3>1 DEF Draft
  <2>7. Save(w) \/ store' = store
    BY <1>2, <1>4, StepCases DEF Get, Create, Operate
  <2> QED
    BY <1>2, <1>4, <2>1, <2>2, <2>3, <2>4, <2>5, <2>6, <2>7, StepCases
<1> QED
  BY <1>3, <1>4 DEF Next

\* For any number of operations per save, by any of the writers, a save of one
\* operation loses nothing.
THEOREM OneOperationTheorem == Spec => OneOperationSavesLoseNothing
<1>1. Init => DraftInv
  BY DEF Init, DraftInv, TypeOK, StoreValid, Draft
<1>2. DraftInv /\ [Next]_vars =>
        [\A w \in Writer : Save(w) =>
           LET k == KeyOf(hand[w])
           IN  /\ hand[w].revision = BaseRevision(w) + 1 <=> store[k] = base[w]
               /\ store[k] = base[w] /\ store[k] # NoCase =>
                    /\ store[k].state # "Cancelled"
                    /\ \A x \in store[k].materials : Retains(store'[k], x)]_vars
  <2> SUFFICES ASSUME DraftInv, NEW w \in Writer, Save(w)
               PROVE  LET k == KeyOf(hand[w])
                      IN  /\ hand[w].revision = BaseRevision(w) + 1 <=> store[k] = base[w]
                          /\ store[k] = base[w] /\ store[k] # NoCase =>
                               /\ store[k].state # "Cancelled"
                               /\ \A x \in store[k].materials : Retains(store'[k], x)
    OBVIOUS
  <2> DEFINE c == hand[w]
             b == base[w]
             k == KeyOf(c)
  <2>1. /\ c \in Case /\ c # NoCase /\ store'[k] = c /\ Draft(w)
        /\ store[k] = NoCase => c.revision = 1
        /\ store[k] # NoCase => store[k] \in Case /\ c.revision = store[k].revision + 1
    BY SaveAdvances DEF Save, DraftInv
  <2>2. CASE b = NoCase
    <3>1. BaseRevision(w) = 0 /\ c.revision \in Nat
      BY <2>1, <2>2, CaseNumbers DEF BaseRevision
    <3>2. store[k] # NoCase => c.revision # 1
      BY DEF Save, RevisionAdmits
    <3> QED
      BY <2>1, <2>2, <3>1, <3>2
  <2>3. CASE b # NoCase
    <3>1. b \in Case /\ BaseRevision(w) = b.revision /\ b.revision \in Nat
      BY <2>3, CaseNumbers DEF DraftInv, TypeOK, BaseRevision
    <3>2. store[k] # NoCase /\ (store[k] = b \/ b.revision < store[k].revision)
      BY <2>1, <2>3 DEF Draft
    <3>3. c.revision = store[k].revision + 1 /\ store[k].revision \in Nat
      BY <2>1, <3>2, CaseNumbers
    <3>4. c.revision = b.revision + 1 <=> store[k] = b
      BY <3>1, <3>2, <3>3
    <3>5. store[k] = b => OperationStep(c.tenantId, b, c)
      BY <2>1, <2>3, <3>4 DEF Draft
    <3>6. store[k] = b => b.state # "Cancelled" /\ \A x \in b.materials : Retains(c, x)
      BY <3>1, <3>5, OperationKeeps
    <3> QED
      BY <2>1, <3>1, <3>4, <3>6
  <2> QED
    BY <2>2, <2>3
<1> QED
  BY <1>1, <1>2, DraftStep, PTL DEF Spec, OneOperationSavesLoseNothing

-----------------------------------------------------------------------------
(* The instants a case records never contradict each other.                *)

\* The instants of a projection entry and of a material are integers.
LEMMA EntryNumbers ==
    ASSUME NEW c \in Case
    PROVE  /\ \A r \in Declared : /\ c.requirementStates[r].updatedAt \in Nat
                                  /\ c.requirementStates[r].firstMaterialAt \in Nat \cup {NoTime}
           /\ \A x \in c.materials : x.addedAt \in Nat
<1>1. \A r \in Declared : c.requirementStates[r] \in RequirementState
  BY DEF Case
<1>2. \A x \in c.materials : x \in CaseMaterial
  BY DEF Case
<1> QED
  BY <1>1, <1>2, CaseAssumption DEF RequirementState, CaseMaterial

\* The case-level part of HistoryInOrder, and its parts for materials and for
\* one projection entry.
LifecycleInOrder(c) ==
    /\ c.activatedAt <= c.updatedAt /\ c.cancelledAt <= c.updatedAt
    /\ c.state = "Cancelled" => c.cancelledAt = c.updatedAt /\ c.activatedAt <= c.cancelledAt

MaterialsInOrder(c) == \A x \in c.materials : x.addedAt <= c.updatedAt

EntryInOrder(c, r) ==
    LET s == c.requirementStates[r] IN
      /\ s.firstMaterialAt <= s.updatedAt /\ s.updatedAt <= c.updatedAt
      /\ \A m \in s.materialIds : \E x \in c.materials :
           x.materialId = m /\ x.addedAt <= s.updatedAt

\* HistoryInOrder is its three parts.
LEMMA HistoryParts ==
    ASSUME NEW c
    PROVE  HistoryInOrder(c) <=> /\ LifecycleInOrder(c) /\ MaterialsInOrder(c)
                                 /\ \A r \in Declared : EntryInOrder(c, r)
BY DEF HistoryInOrder, LifecycleInOrder, MaterialsInOrder, EntryInOrder

\* Adding or associating: the entries named move to the present, the others and
\* their witnesses stay.
LEMMA CorrelatedInOrder ==
    ASSUME NEW c \in Case, NEW d \in Case, NEW rs, NEW m \in Material, NEW now \in Time,
           NEW r \in Declared, EntryInOrder(c, r), c.updatedAt <= now, d.updatedAt = now,
           d.requirementStates = Correlate(c.requirementStates, rs, m, now),
           \A x \in c.materials : \E y \in d.materials :
             y.materialId = x.materialId /\ y.addedAt = x.addedAt,
           \E y \in d.materials : y.materialId = m /\ y.addedAt <= now
    PROVE  EntryInOrder(d, r)
<1> DEFINE s == c.requirementStates[r]
           u == d.requirementStates[r]
<1>1. /\ now \in Nat /\ c.updatedAt \in Nat /\ s.updatedAt \in Nat
      /\ s.firstMaterialAt \in Nat \cup {NoTime}
      /\ \A x \in c.materials : x.addedAt \in Nat
      /\ \A y \in d.materials : y.addedAt \in Nat
  BY CaseNumbers, EntryNumbers, CaseAssumption
<1>2. /\ s.firstMaterialAt <= s.updatedAt /\ s.updatedAt <= c.updatedAt
      /\ \A k \in s.materialIds : \E x \in c.materials :
           x.materialId = k /\ x.addedAt <= s.updatedAt
  BY DEF EntryInOrder
<1>3. \A k \in s.materialIds : \E y \in d.materials :
        y.materialId = k /\ y.addedAt <= s.updatedAt
  BY <1>2
<1> HIDE DEF s, u
<1>4. CASE r \notin rs
  <2>1. u = s
    BY <1>4, CorrelateEntries DEF s, u
  <2>2. s.updatedAt <= now
    BY <1>1, <1>2
  <2> QED
    BY <1>2, <1>3, <2>1, <2>2 DEF EntryInOrder, u
<1>5. CASE r \in rs
  <2>1. /\ u.materialIds = s.materialIds \cup {m} /\ u.updatedAt = now
        /\ u.firstMaterialAt = IF s.firstMaterialAt = NoTime THEN now ELSE s.firstMaterialAt
    BY <1>5, CorrelateEntries DEF s, u
  <2>2. u.firstMaterialAt <= now
    BY <1>1, <1>2, <2>1
  <2>3. \A k \in s.materialIds : \E y \in d.materials :
          y.materialId = k /\ y.addedAt <= now
    <3> SUFFICES ASSUME NEW k \in s.materialIds
                 PROVE  \E y \in d.materials : y.materialId = k /\ y.addedAt <= now
      OBVIOUS
    <3>1. PICK y \in d.materials : y.materialId = k /\ y.addedAt <= s.updatedAt
      BY <1>3
    <3>2. y.addedAt <= now
      BY <1>1, <1>2, <3>1
    <3> QED
      BY <3>1, <3>2
  <2>4. u.updatedAt <= d.updatedAt
    BY <1>1, <2>1
  <2> QED
    BY <2>1, <2>2, <2>3, <2>4 DEF EntryInOrder, u
<1> QED
  BY <1>4, <1>5

\* A new case has its history in order.
LEMMA CreatedInOrder ==
    ASSUME NEW t \in Tenant, NEW id \in CaseId, NEW now \in Time
    PROVE  HistoryInOrder(Created(t, id, now))
BY CaseAssumption DEF HistoryInOrder, Created, NoTime

\* Every operation keeps the history of a case in order.
LEMMA OperationInOrder ==
    ASSUME NEW t, NEW c \in Case, NEW d, OperationStep(t, c, d), HistoryInOrder(c)
    PROVE  HistoryInOrder(d)
<1>1. d \in Case
  BY OperationResult
<1>2. /\ LifecycleInOrder(c) /\ MaterialsInOrder(c)
      /\ \A r \in Declared : EntryInOrder(c, r)
  BY HistoryParts
<1>3. ASSUME NEW now \in Time, c.updatedAt <= now, d.updatedAt = now,
             d.materials = c.materials, d.requirementStates = c.requirementStates
      PROVE  MaterialsInOrder(d) /\ \A r \in Declared : EntryInOrder(d, r)
  BY <1>2, <1>3, EntryNumbers, CaseNumbers, CaseAssumption DEF MaterialsInOrder, EntryInOrder
<1>4. ASSUME NEW now \in Time, CanActivate(t, c, now), d = Activated(c, now)
      PROVE  HistoryInOrder(d)
  <2>1. /\ d.materials = c.materials /\ d.requirementStates = c.requirementStates
        /\ d.updatedAt = now /\ d.activatedAt = now /\ d.cancelledAt = c.cancelledAt
        /\ d.state = "Active"
    BY <1>4 DEF Activated, Case
  <2>2. c.updatedAt <= now
    BY <1>4, CaseNumbers, CaseAssumption DEF CanActivate, ClockNotBackwards
  <2>3. LifecycleInOrder(d)
    BY <1>2, <2>1, <2>2, CaseNumbers, CaseAssumption DEF LifecycleInOrder, NoTime
  <2> QED
    BY <1>3, <2>1, <2>2, <2>3, HistoryParts
<1>5. ASSUME NEW now \in Time, CanCancel(t, c, now), d = Cancelled(c, now)
      PROVE  HistoryInOrder(d)
  <2>1. /\ d.materials = c.materials /\ d.requirementStates = c.requirementStates
        /\ d.updatedAt = now /\ d.activatedAt = c.activatedAt /\ d.cancelledAt = now
    BY <1>5 DEF Cancelled, Case
  <2>2. c.updatedAt <= now
    BY <1>5, CaseNumbers, CaseAssumption DEF CanCancel, ClockNotBackwards
  <2>3. LifecycleInOrder(d)
    BY <1>2, <2>1, <2>2, CaseNumbers, CaseAssumption DEF LifecycleInOrder, NoTime
  <2> QED
    BY <1>3, <2>1, <2>2, <2>3, HistoryParts
<1>6. ASSUME NEW now \in Time, c.updatedAt <= now, d.updatedAt = now, AcceptsMaterial(c),
             d.activatedAt = c.activatedAt, d.cancelledAt = c.cancelledAt,
             d.state = c.state
      PROVE  LifecycleInOrder(d)
  BY <1>2, <1>6, CaseNumbers, CaseAssumption DEF LifecycleInOrder, AcceptsMaterial, NoTime
<1>7. ASSUME NEW now \in Time, NEW m \in Material, NEW rs \in SUBSET Requirement,
             NEW p \in Payload, CanAddMaterial(t, c, m, p, rs, now),
             d = WithMaterial(c, m, p, rs, now)
      PROVE  HistoryInOrder(d)
  <2> DEFINE new == [materialId |-> m, payload |-> p, requirementIds |-> rs, addedAt |-> now]
  <2>1. /\ d.materials = c.materials \cup {new}
        /\ d.requirementStates = Correlate(c.requirementStates, rs, m, now)
        /\ d.updatedAt = now /\ d.activatedAt = c.activatedAt
        /\ d.cancelledAt = c.cancelledAt /\ d.state = c.state
    BY <1>7 DEF WithMaterial, Case
  <2>2. new.materialId = m /\ new.addedAt = now
    OBVIOUS
  <2> HIDE DEF new
  <2>3. c.updatedAt <= now /\ AcceptsMaterial(c)
    BY <1>7, CaseNumbers, CaseAssumption DEF CanAddMaterial, AdmitsMaterial, ClockNotBackwards
  <2>4. now <= now
    BY CaseAssumption
  <2>5. MaterialsInOrder(d)
    BY <1>2, <2>1, <2>2, <2>3, EntryNumbers, CaseNumbers, CaseAssumption DEF MaterialsInOrder
  <2>6. \A r \in Declared : EntryInOrder(d, r)
    <3>1. /\ \A x \in c.materials : \E y \in d.materials :
               y.materialId = x.materialId /\ y.addedAt = x.addedAt
          /\ \E y \in d.materials : y.materialId = m /\ y.addedAt <= now
      BY <2>1, <2>2, <2>4
    <3>2. ASSUME NEW r \in Declared PROVE EntryInOrder(d, r)
      <4>1. EntryInOrder(c, r)
        BY <1>2
      <4>2. /\ d \in Case /\ c.updatedAt <= now /\ d.updatedAt = now
            /\ d.requirementStates = Correlate(c.requirementStates, rs, m, now)
        BY <1>1, <2>1, <2>3
      <4> QED
        BY <3>1, <4>1, <4>2, CorrelatedInOrder
    <3> QED
      BY <3>2
  <2> QED
    BY <1>6, <2>1, <2>3, <2>5, <2>6, HistoryParts
<1>8. ASSUME NEW now \in Time, NEW m \in Material, NEW rs \in SUBSET Requirement,
             CanAssociate(t, c, m, rs, now), d = WithAssociation(c, m, rs, now)
      PROVE  HistoryInOrder(d)
  <2> DEFINE wider(x) == [x EXCEPT !.requirementIds = x.requirementIds \cup rs]
  <2>1. /\ d.materials = {IF x.materialId = m THEN wider(x) ELSE x : x \in c.materials}
        /\ d.requirementStates = Correlate(c.requirementStates, rs, m, now)
        /\ d.updatedAt = now /\ d.activatedAt = c.activatedAt
        /\ d.cancelledAt = c.cancelledAt /\ d.state = c.state
    BY <1>8 DEF WithAssociation, Case
  <2>2. \A x \in c.materials : wider(x).materialId = x.materialId /\ wider(x).addedAt = x.addedAt
    BY DEF Case, CaseMaterial
  <2> HIDE DEF wider
  <2>3. c.updatedAt <= now /\ AcceptsMaterial(c) /\ \E x \in c.materials : x.materialId = m
    BY <1>8, CaseNumbers, CaseAssumption DEF CanAssociate, AdmitsAssociation, ClockNotBackwards
  <2>4. \A x \in c.materials : \E y \in d.materials :
          y.materialId = x.materialId /\ y.addedAt = x.addedAt
    BY <2>1, <2>2
  <2>5. \A y \in d.materials : \E x \in c.materials : y.addedAt = x.addedAt
    BY <2>1, <2>2
  <2>6. \A x \in c.materials : x.addedAt <= now
    BY <1>2, <2>3, EntryNumbers, CaseNumbers, CaseAssumption DEF MaterialsInOrder
  <2>7. MaterialsInOrder(d)
    BY <2>1, <2>5, <2>6 DEF MaterialsInOrder
  <2>8. \E y \in d.materials : y.materialId = m /\ y.addedAt <= now
    BY <2>3, <2>4, <2>6
  <2>9. \A r \in Declared : EntryInOrder(d, r)
    <3>1. ASSUME NEW r \in Declared PROVE EntryInOrder(d, r)
      <4>1. EntryInOrder(c, r)
        BY <1>2
      <4>2. /\ d \in Case /\ c.updatedAt <= now /\ d.updatedAt = now
            /\ d.requirementStates = Correlate(c.requirementStates, rs, m, now)
        BY <1>1, <2>1, <2>3
      <4> QED
        BY <2>4, <2>8, <4>1, <4>2, CorrelatedInOrder
    <3> QED
      BY <3>1
  <2> QED
    BY <1>6, <2>1, <2>3, <2>7, <2>9, HistoryParts
<1> QED
  BY <1>4, <1>5, <1>7, <1>8 DEF OperationStep

\* A step of any writer keeps every history in order.
LEMMA HistoryStep ==
    ASSUME TypeOK, HistoriesInOrder, [Next]_vars
    PROVE  HistoriesInOrder'
<1> USE DEF HistoriesInOrder
<1>1. CASE UNCHANGED vars
  BY <1>1 DEF vars
<1>2. ASSUME NEW w \in Writer, Save(w) PROVE HistoriesInOrder'
  BY <1>2 DEF Save, TypeOK
<1>3. ASSUME NEW w \in Writer, NEW t \in Tenant, NEW id \in CaseId, Get(w, t, id)
      PROVE  HistoriesInOrder'
  <2>1. <<t, id>> \in Key
    BY DEF Key
  <2> QED
    BY <1>3, <2>1 DEF Get, TypeOK
<1>4. ASSUME NEW w \in Writer, NEW t \in Tenant, NEW id \in CaseId, NEW now \in Time,
             Create(w, t, id, now)
      PROVE  HistoriesInOrder'
  BY <1>4, CreatedInOrder DEF Create, TypeOK
<1>5. ASSUME NEW w \in Writer, Operate(w) PROVE HistoriesInOrder'
  <2>1. hand[w] \in Case /\ HistoryInOrder(hand[w])
    BY <1>5 DEF Operate, MayOperate, TypeOK
  <2>2. HistoryInOrder(hand'[w])
    BY <1>5, <2>1, OperationInOrder DEF Operate
  <2> QED
    BY <1>5, <2>2 DEF Operate, TypeOK
<1> QED
  BY <1>1, <1>2, <1>3, <1>4, <1>5, StepCases DEF Next

\* In every reachable state, for any discipline of the writers, the instants of
\* every held and every stored case tell one consistent history.
THEOREM HistoryTheorem == Spec => []HistoriesInOrder
<1>1. Init => HistoriesInOrder
  BY DEF Init, HistoriesInOrder
<1> QED
  BY <1>1, HistoryStep, TypeCorrect, PTL DEF Spec
=============================================================================
