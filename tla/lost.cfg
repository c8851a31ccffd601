SPECIFICATION Spec
CONSTANTS
    Ids = {t1, t2}
    Uids = {"app"}
    SystemUids = {}
    Proxied = {}
    Profiles <- OnceProfiles
    Delays = {1, 3}
    Offsets = {0}
    None = None
    Gone = Gone
    MinFuzzable = 2
    MinFuturity = 1
    MinIntervalSystem = 1
    MinIntervalApp = 1
    MaxInterval = 10
    HalfDay = 10
    Hour = 5
    Tolerance = 1
    Interrupts = FALSE
    MaxTime = 5
    LastStart = 100
    MaxAlarms = 2
SYMMETRY Symmetric
INVARIANTS
    StartedNotLost
