SPECIFICATION Spec
CONSTANTS
    Ids = {t1, t2}
    Uids = {"app", "sys"}
    SystemUids = {}
    Proxied = {}
    Profiles <- CoreProfiles
    Delays = {1, 3, 4}
    Offsets = {0}
    None = None
    Gone = Gone
    MinFuzzable = 2
    MinFuturity = 1
    MinIntervalSystem = 1
    MinIntervalApp = 1
    MaxInterval = 10
    HalfDay = 10
    Hour = 5
    Tolerance = 1
    Interrupts = FALSE
    MaxTime = 3
    LastStart = 100
    MaxAlarms = 3
SYMMETRY Symmetric
INVARIANTS
    BatchWithinWindow
