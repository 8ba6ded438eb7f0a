CONSTANTS
    s1 = s1
    s2 = s2
    s3 = s3
    r1 = r1
    r2 = r2
    relative = relative
    absolute = absolute
    Senders = {s1, s2, s3}
    Tenants = {t1, t2}
    Runs = {r1, r2}
    Spellings = {relative, absolute}
    LongNamed = {t2}
    None = None
SYMMETRY Exchangeable
CHECK_DEADLOCK FALSE
SPECIFICATION Spec
INVARIANTS RunsAreApart
