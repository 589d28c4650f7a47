--------------------------- MODULE MCExecutionGate ---------------------------
EXTENDS ExecutionGate

CONSTANTS f1, f2

\* a consent that expires, and one that does not and begins later
Expiring == [scope |-> {f1}, issued |-> 0, expires |-> 1]
Lasting == [scope |-> {f2}, issued |-> 1, expires |-> None]

MCConsent == {Expiring, Lasting}

\* one to mint from each consent, and one that is only ever composed: it goes
\* beyond its consent
MCCapability ==
    {[parent |-> Expiring, scope |-> {f1}, issued |-> 0, expires |-> 1, notBefore |-> None],
     [parent |-> Lasting, scope |-> {f2}, issued |-> 1, expires |-> 2, notBefore |-> 1],
     [parent |-> Expiring, scope |-> {f1, f2}, issued |-> 0, expires |-> 2, notBefore |-> None]}

=============================================================================
