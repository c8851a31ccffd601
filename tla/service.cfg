\* The service ability: life cycle, clock, time zone, lazy timer manager, tick.
SPECIFICATION FairSpec
CONSTANTS
    Callers = {c1, c2}
    Times = {0, 5}
    East = East  West = West
    Zones <- MCZones
    Offset <- MCOffset
    Default = East
    None = None
    Unreadable = Unreadable
    Minute = 3
    Second = 2
    Workloads <- MCWorkloads
    MaxCrashes = 1
INVARIANTS
    TypeOK ZoneKept ZoneDurable ChangesAnnounced RtcFollowsClock TickAligned
PROPERTY TicksGoOn
