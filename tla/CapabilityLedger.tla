--------------------------- MODULE CapabilityLedger ---------------------------
(***************************************************************************)
(* What capability tokens promise, whoever mints and presents them.  A     *)
(* token has at most one owner, the call that redeemed it, and a call that *)
(* redeems learns only from a token it owns; a call may also present a     *)
(* token without redeeming it.  Nobody learns anything from a revoked      *)
(* token, outside the validity of the token and of its consent, or beyond  *)
(* what the subject consented to.                                          *)
(***************************************************************************)
EXTENDS Integers

CONSTANTS TokenId, Call, TicksPerSecond, Never, None

VARIABLES
    clock,
    issued,      \* the tokens that exist
    revoked,     \* the tokens that have been revoked
    owner,       \* the call that redeemed each token id, None for none
    disclosed    \* what calls have learned: [call, token, under, at, redeemed]

vars == <<clock, issued, revoked, owner, disclosed>>

Seconds(at) == at \div TicksPerSecond

\* Timestamps are whole seconds; the second of an expiry is still valid.
ValidAt(t, at) ==
    /\ t.issuedAt <= Seconds(at)
    /\ t.notBefore # None => t.notBefore <= Seconds(at)
    /\ Seconds(at) <= t.expiresAt
    /\ t.consent.expiresAt # Never => Seconds(at) <= t.consent.expiresAt

\* Something may be learned under a resource of the consent's own scope.
Permitted(d) ==
    /\ d.token \in issued \ revoked
    /\ d.at <= clock
    /\ ValidAt(d.token, d.at)
    /\ d.under \in d.token.consent.scope

Init ==
    /\ clock = 0
    /\ issued = {}
    /\ revoked = {}
    /\ owner = [i \in TokenId |-> None]
    /\ disclosed = {}

Advance ==
    /\ clock' = clock + 1
    /\ UNCHANGED <<issued, revoked, owner, disclosed>>

\* A token id is issued once.
Issue ==
    /\ \E t \in issued' \ issued :
        /\ issued' = issued \cup {t}
        /\ \A u \in issued : u.id # t.id
    /\ UNCHANGED <<clock, revoked, owner, disclosed>>

Revoke(t) ==
    /\ revoked' = revoked \cup {t}
    /\ UNCHANGED <<clock, issued, owner, disclosed>>

\* Call n takes a token nobody owns.
Redeem(t, n) ==
    /\ t \notin revoked
    /\ owner[t.id] = None
    /\ owner' = [owner EXCEPT ![t.id] = n]

\* Calls redeem, learn, or do both at once.
Use ==
    /\ owner' = owner \/ \E t \in issued, n \in Call : Redeem(t, n)
    /\ disclosed \subseteq disclosed'
    /\ \A d \in disclosed' \ disclosed :
        /\ Permitted(d)
        /\ d.redeemed => owner'[d.token.id] = d.call
    /\ UNCHANGED <<clock, issued, revoked>>

Next ==
    \/ Advance
    \/ Issue
    \/ \E t \in issued : Revoke(t)
    \/ Use

Spec == Init /\ [][Next]_vars
=============================================================================
