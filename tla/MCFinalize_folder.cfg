CONSTANTS
    contoso = contoso
    fabrikam = fabrikam
    nobody = nobody
    Tenants = {contoso, fabrikam}
    None = nobody
    Soundness = {TRUE, FALSE}
    MaxSessions = 3
SYMMETRY Exchangeable
CHECK_DEADLOCK FALSE
SPECIFICATION Spec
INVARIANTS TypeOK VerifiedIsCoherent NeverReassigned LostIsNotOld
PROPERTIES ConflictStays ImplementsPromise
