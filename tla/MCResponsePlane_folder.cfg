CONSTANTS
    message_trace = message_trace
    audit_export = audit_export
    other = other
    Actions = {message_trace, audit_export}
    Trace = message_trace
    Unknown = other
    Checks = {"lab_guard"}
    Variants = 2
    MaxResponses = 2
CHECK_DEADLOCK FALSE
SPECIFICATION Spec
INVARIANTS TypeOK OnlyGuarded AcceptedOnce RowsOutliveStops OkIsDescribed GateReadsOne
