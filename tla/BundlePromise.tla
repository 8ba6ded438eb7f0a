---------------------------- MODULE BundlePromise ----------------------------
(***************************************************************************)
(* What a run folder promises to whoever gates it: at any time the gate    *)
(* refuses it or accepts one bundle, of one evidence version and one       *)
(* tenant at most; one bundle is never exchanged for another while it is   *)
(* accepted; and a folder that was accepted for a tenant is never accepted *)
(* for another one.                                                        *)
(***************************************************************************)
CONSTANTS
    Tenants,
    Versions,   \* versions of the evidence
    None        \* no tenant, no bundle

VARIABLES
    accepted,   \* None, or the bundle the gate accepts: [ver, tenant]
    owner       \* the tenant the folder was accepted for, or None

Bundles == [ver : Versions, tenant : Tenants \cup {None}]

Init == accepted = None /\ owner = None

Refuse == accepted' = None /\ UNCHANGED owner

Accept(b) ==
    /\ accepted = None
    /\ b.tenant # None => owner \in {None, b.tenant}
    /\ accepted' = b
    /\ owner' = IF b.tenant = None THEN owner ELSE b.tenant

Next == Refuse \/ \E b \in Bundles : Accept(b)

Spec == Init /\ [][Next]_<<accepted, owner>>
=============================================================================
