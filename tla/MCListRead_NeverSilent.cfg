CONSTANTS
    u1 = u1
    u2 = u2
    u3 = u3
    Foreign = Foreign
    End = End
    Blank = Blank
    None = None
    Urls = {u1, u2, u3}
    First = u1
    PageRows = {0, 1, 2}
    Asks <- LowCeilings
    StrictMaxPages = 2
SPECIFICATION Spec
CHECK_DEADLOCK FALSE
INVARIANTS NeverSilent
