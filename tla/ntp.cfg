\* Two threads that update and save while users set the clock, writes fail and the
\* service crashes.  Of 12 microseconds and 6 milliseconds in a second, fractions of
\* 4 bits are exact for every third microsecond and carry a stamp ahead for one.
SPECIFICATION Spec
CONSTANTS
    Threads = {t1, t2}
    None = None
    Unreadable = Unreadable
    Base = 20
    TzOffset = 8
    Errs = {5}
    Day = 2
    EightHours = 1
    Word = 64
    RetryMax = 1
    Micros = 12
    Millis = 6
    TwoTo32 = 16
    FirstEpoch = 3
    DiskErrors = TRUE
    MaxTime = 3
    MaxCalls = 2
    MaxCrashes = 1
SYMMETRY Symmetric
CHECK_DEADLOCK FALSE
INVARIANTS TypeOK UpdateIsAccurate StampNear SavedSettings
PROPERTY NitzRespected
