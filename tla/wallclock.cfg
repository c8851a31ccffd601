SPECIFICATION Spec
CONSTANTS
    Ids = {t1}
    Uids = {"app"}
    SystemUids = {}
    Proxied = {}
    Profiles <- ClockProfiles
    Delays = {1, 3}
    Offsets = {0, 3}
    None = None
    Gone = Gone
    MinFuzzable = 2
    MinFuturity = 1
    MinIntervalSystem = 1
    MinIntervalApp = 1
    MaxInterval = 10
    HalfDay = 10
    Hour = 5
    Tolerance = 1
    Interrupts = FALSE
    MaxTime = 3
    LastStart = 100
    MaxAlarms = 1
SYMMETRY Symmetric
INVARIANTS
    WallClockAligned
