CONSTANTS
    users = users
    alerts = alerts
    exchange = exchange
    Families = {users, alerts}
    Scopes = {exchange}
    Policies <- ThrottlePolicies
    MaxRedirects = 3
    MaxCalls = 3
CHECK_DEADLOCK FALSE
SPECIFICATION Spec
INVARIANTS TypeOK WireBounded StopIsEarned RefusalsBounded
PROPERTY CallEnds
