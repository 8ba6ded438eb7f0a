CONSTANTS
    security = security
    licensing = licensing
    exchange = exchange
    dns = dns
    day = day
    NoWindow = NoWindow
    Unrecorded = Unrecorded
    NoCollector = NoCollector
    Collectors = {security, exchange}
    Windowed = {security}
    NonFatal = {exchange}
    Exchange = exchange
    Dns = dns
    Windows = {NoWindow, day}
    MaxSessions = 2
SPECIFICATION Spec
CHECK_DEADLOCK FALSE
INVARIANTS HeadlineHonest ExitHonest SelectedSummarised BlockersCurrent
PROPERTIES FinishedStays ImplementsPromise
