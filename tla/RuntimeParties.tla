----------------------------- MODULE RuntimeParties -----------------------------
(* Who the services of the runtime deal with.                                   *)
CONSTANTS
    Subject,
    Requester,          \* who asks for access, and the consumers of identities
    None                \* an optional input that is absent
=============================================================================
