CONSTANTS
    security = security
    licensing = licensing
    exchange = exchange
    dns = dns
    day = day
    NoWindow = NoWindow
    Unrecorded = Unrecorded
    NoCollector = NoCollector
    Collectors = {security}
    Windowed = {security}
    NonFatal = {}
    Exchange = exchange
    Dns = dns
    Windows = {NoWindow, day}
    MaxSessions = 4
SPECIFICATION Spec
CHECK_DEADLOCK FALSE
INVARIANTS TypeOK EvidenceHonest
