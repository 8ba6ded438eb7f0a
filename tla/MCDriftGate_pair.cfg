CONSTANTS
    stale = stale
    devices = devices
    licences = licences
    Findings = {stale}
    Collectors = {devices, licences}
    Own <- OwnOf
    Reads <- ReadsOf
    Tolerant <- TolerantOf
    Outcomes <- OutcomesOf
    Windows = {1, 2}
    MaxDay = 1
    MaxRuns = 2
CHECK_DEADLOCK FALSE
SPECIFICATION Spec
INVARIANTS TypeOK ResolvedIsFixed DriftSuffices
PROPERTIES GateNeverHeals
