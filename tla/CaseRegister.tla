----------------------------- MODULE CaseRegister -----------------------------
(***************************************************************************)
(* What a repository of cases promises its readers: every case is an       *)
(* atomic register.  A case appears by being created, and every later      *)
(* value of it is what one operation of its own tenant makes of the value  *)
(* before it, so that no committed operation is ever lost or repeated.     *)
(***************************************************************************)
EXTENDS ProtocolizationCase

VARIABLE cases       \* the committed value of each case, or NoCase

Key == Tenant \X CaseId

Init == cases = [k \in Key |-> NoCase]

Create(k) ==
    /\ cases[k] = NoCase
    /\ \E now \in Time : /\ CanCreate(k[1], k[2], now)
                         /\ cases' = [cases EXCEPT ![k] = Created(k[1], k[2], now)]

Operate(k) ==
    /\ cases[k] # NoCase
    /\ OperationStep(k[1], cases[k], cases'[k])
    /\ cases' = [cases EXCEPT ![k] = cases'[k]]

Next == \E k \in Key : Create(k) \/ Operate(k)

Spec == Init /\ [][Next]_cases
=============================================================================
