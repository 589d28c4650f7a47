-------------------------- MODULE MCCapabilityAccess --------------------------
(* CapabilityAccess with half-second ticks: one pack of two fields, and      *)
(* consents to one content or to the whole pack.                             *)
EXTENDS CapabilityAccess, TLC

CONSTANTS k1, k2, p1, f1, f2

MCPackField == p1 :> (f1 :> k1 @@ f2 :> k2)
MCTerms ==
    {[scope |-> {ContentScope(k1)}, lifetime |-> Never, priced |-> FALSE],
     [scope |-> {PackScope(p1)}, lifetime |-> 1, priced |-> FALSE]}

\* A caller within its rights, and callers that each lack or add one thing.
Fair == [consuming |-> TRUE, limited |-> FALSE, bound |-> TRUE, paid |-> FALSE,
         metered |-> FALSE, trusted |-> TRUE, answered |-> TRUE]
MCOptions ==
    {Fair, [Fair EXCEPT !.limited = TRUE, !.consuming = FALSE],
     [Fair EXCEPT !.answered = FALSE], [Fair EXCEPT !.bound = FALSE, !.metered = TRUE],
     [Fair EXCEPT !.limited = TRUE, !.trusted = FALSE]}

=============================================================================
