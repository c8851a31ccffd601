\* Two threads, a crash of the service, timers that trigger, JavaScript or not.
SPECIFICATION Spec
CONSTANTS
    Threads = {t1, t2}
    Death = death
    Ids = {i1, i2}
    None = None
    MaxCalls = 2
    MaxPasses = 1
    MaxCrashes = 1
SYMMETRY Symmetric
INVARIANTS TypeOK NoTriggerAfterDestroy StaleProxyNoticed NativeAppSurvives CallsProceed
\* The application makes a bounded number of calls.
CHECK_DEADLOCK FALSE
