\* One thread, one timer, no crash of the service: destroyTimer ends the application.
SPECIFICATION Spec
CONSTANTS
    Threads = {t1}
    Death = death
    Ids = {i1}
    None = None
    MaxCalls = 2
    MaxPasses = 0
    MaxCrashes = 0
INVARIANT AppSurvives
CHECK_DEADLOCK FALSE
