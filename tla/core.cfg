SPECIFICATION Spec
CONSTANTS
    Ids = {t1, t2}
    Uids = {"app", "sys"}
    SystemUids = {"sys"}
    Proxied = {"app", "sys"}
    Profiles <- CoreProfiles
    Delays = {1, 3}
    Offsets = {0}
    None = None
    Gone = Gone
    MinFuzzable = 2
    MinFuturity = 1
    MinIntervalSystem = 1
    MinIntervalApp = 1
    MaxInterval = 10
    HalfDay = 10
    Hour = 5
    Tolerance = 1
    Interrupts = FALSE
    MaxTime = 4
    LastStart = 100
    MaxAlarms = 2
SYMMETRY Symmetric
INVARIANTS
    TypeOK
    QueuedIsStarted
    BatchSummary
    NeverEarly
    ProxyHolds
    CalledOnce
    WakeupArmed
PROPERTIES
    ContractKept
    OnlyReBatchLoses
    StoppedFireFromProxies
