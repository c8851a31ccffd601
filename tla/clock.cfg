SPECIFICATION Spec
CONSTANTS
    Ids = {t1}
    Uids = {"app"}
    SystemUids = {}
    Proxied = {}
    Profiles <- ClockProfiles
    Delays = {1, 3}
    Offsets = {0, 1, 3}
    None = None
    Gone = Gone
    MinFuzzable = 2
    MinFuturity = 1
    MinIntervalSystem = 1
    MinIntervalApp = 2
    MaxInterval = 10
    HalfDay = 10
    Hour = 5
    Tolerance = 1
    Interrupts = TRUE
    MaxTime = 5
    LastStart = 100
    MaxAlarms = 1
SYMMETRY Symmetric
INVARIANTS
    ClockDriftBounded
    WakeupArmed
    OneCallbackPerPass
