\* One update of a device whose time zone is eight units ahead of UTC.
SPECIFICATION Spec
CONSTANTS
    Threads = {t1}
    None = None
    Unreadable = Unreadable
    Base = 20
    TzOffset = 8
    Errs = {0}
    Day = 2
    EightHours = 1
    Word = 64
    RetryMax = 1
    Micros = 12
    Millis = 6
    TwoTo32 = 16
    FirstEpoch = 3
    DiskErrors = FALSE
    MaxTime = 2
    MaxCalls = 1
    MaxCrashes = 0
CHECK_DEADLOCK FALSE
INVARIANT UpdateIsUTC
