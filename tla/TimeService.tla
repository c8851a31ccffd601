----------------------------- MODULE TimeService -----------------------------
(***************************************************************************)
(* The ability that holds the service together: time_service.cpp with the  *)
(* time zone (time_zone_info.cpp), the minute tick (time_tick_notify.cpp)  *)
(* and the common events (time_service_notify.cpp).                        *)
(*                                                                         *)
(* Three kinds of threads meet: the main thread runs OnStart and OnStop    *)
(* (program counter spc), binder threads run the calls of the clients (pc) *)
(* from the first publication on, after OnStop too, and the tick timer's   *)
(* thread runs Callback (tpc).  Nothing is locked: a step is one access to *)
(* what they share.  Calls that are refused (permission, range, unknown    *)
(* zone) or whose first system call fails change nothing and are not       *)
(* steps.  Of the wall clock two things are kept: what it was last set to, *)
(* and its position in the minute; of the timer manager, whether it exists.*)
(***************************************************************************)
EXTENDS Integers

CONSTANTS
    Callers,     \* binder threads
    Times,       \* the times SetTime is called with
    Zones,       \* the keys of timezoneInfoMap_
    Offset,      \* and their utcOffsetHours
    Default,     \* the zone of a service without a readable file
    None,
    Unreadable,  \* the zone file: missing, truncated or not JSON
    Minute,      \* MINUTE_TO_MILLISECOND
    Second,      \* MILLI_TO_BASE
    Workloads,   \* bound: records of the kinds of calls one behaviour has ("time", "zone",
                 \* "timer", and "tick" if it has ticks) and of how many calls it has
    MaxCrashes   \* bound: crashes of the service

ASSUME ServiceAssumption ==
    /\ Times \subseteq Nat /\ Offset \in [Zones -> Int] /\ Default \in Zones
    /\ Minute \in Nat \ {0} /\ Second \in Nat \ {0} /\ MaxCrashes \in Nat
    /\ None \notin Times /\ None \notin Zones /\ None \notin Callers
    /\ None \notin Int /\ Unreadable \notin Zones

VARIABLES
    state,       \* state_
    started,     \* the ability framework has called OnStart and not OnStop since
    published,   \* the ability manager hands out the service
    handler,     \* serviceHandler_ exists
    retry,       \* the second Init is posted to it
    manager,     \* timerManagerHandler_ is not nullptr
    spc,         \* the main thread
    initZone,    \* timezoneId of TimeZoneInfo::Init
    clock,       \* what settimeofday last set, None for what the system started with
    phase,       \* the wall clock's position in the minute
    rtc,         \* what the hardware clock was last set to, in seconds
    zone,        \* curTimezoneId_
    tz,          \* the offset the variable TZ gives the process
    zfile,       \* TIMEZONE_FILE_PATH
    running,     \* the tick timer's thread runs
    next,        \* nextTriggerTime_, until it is registered
    left,        \* time until it calls back, None when nothing is registered
    tpc,         \* and what it does
    load,        \* the workload of this behaviour
    pc, arg,     \* what each binder thread does, and its argument
    calls, crashes,
    setter,      \* ghost: who set the clock, until a later event announces it; Ended when
                 \* that process ended first
    zoneSetter,  \* ghost: the same of the zone
    silent,      \* ghost: a write of the hardware clock failed since the clock was set
    rtcCut,      \* ghost: the process ended with such a write due, since the clock was set
    overlap,     \* ghost: the last clock setting came before an earlier one's RTC write
    zraced,      \* ghost: a change of the zone overlapped another or OnStart
    lost,        \* ghost: the zone file could not be written
    acked,       \* ghost: the zone of the last SetTimeZone that returned
    cut,         \* ghost: a change of the zone was interrupted by a crash since, or overlapped
                 \* another before one
    jumped,      \* ghost: the clock was set since it was read for the tick
    late         \* ghost: time between that reading and the registration, modulo Minute

lifeVars  == <<state, started, published, handler, retry, spc, initZone>>
clockVars == <<clock, rtc, setter, silent, rtcCut, overlap>>
zoneVars  == <<zone, tz, zfile, zoneSetter, zraced, lost, acked, cut>>
tickVars  == <<phase, running, next, left, tpc, jumped, late>>
callVars  == <<load, pc, arg, calls>>
vars == <<lifeVars, manager, clockVars, zoneVars, tickVars, callVars, crashes>>

-----------------------------------------------------------------------------
(* Helpers *)

\* SetOffsetToKernel puts "UTC-" in front of the offset.  POSIX reads the
\* result as that many hours east, and as plain UTC when the offset has a
\* minus sign of its own.
OffsetInTZ(z) == IF Offset[z] >= 0 THEN Offset[z] ELSE 0

\* SetTime hands set_rtc_time the seconds only.
WholeSeconds(time) == IF time = None THEN None ELSE time \div Second

\* What Init makes of the zone file.
ZoneInFile == IF zfile = Unreadable THEN Default ELSE zfile

ZoneSteps == {"open", "write", "assign", "zoneEvent"}

\* A SetTimeZone of another thread, or TimeZoneInfo::Init, is in progress.
ChangingZone(others) == spc = "assignZone" \/ \E c \in others : pc[c] \in ZoneSteps

\* A change of the clock or of the zone whose process ended before the event.
Ended == "ended"
AfterEnd(who) == IF who = None THEN None ELSE Ended

Goto(c, step) == pc' = [pc EXCEPT ![c] = step]

\* A client's call reaches the service.
Called(c, kind) ==
    /\ kind \in load.kinds /\ calls < load.calls
    /\ published /\ pc[c] = "idle"
    /\ calls' = calls + 1
    /\ UNCHANGED load

\* Mutant: the tick is registered for a full minute.
FullMinute == Minute

\* Mutant: what has passed of the minute is added.
PassedAdded == Minute + phase

\* RefreshNextTriggerTime: the time to the next full minute of the wall clock.
NextTriggerTime == Minute - phase

-----------------------------------------------------------------------------
(* OnStart, Init and OnStop *)

\* OnStart to the guard of InitTimerHandler; InitServiceHandler keeps a handler
\* it finds.
OnStart ==
    /\ ~started /\ spc = "idle"
    /\ started' = TRUE
    /\ IF state = "RUNNING"
       THEN UNCHANGED <<spc, handler>>
       ELSE /\ spc' = IF manager THEN "initTick" ELSE "createManager"
            /\ handler' = TRUE
    /\ UNCHANGED <<state, published, retry, initZone, manager, clockVars, zoneVars, tickVars,
                   callVars, crashes>>

\* InitTimerHandler creates the timer manager, or fails to.
InitTimerHandler ==
    /\ spc = "createManager"
    /\ spc' = "initTick"
    /\ manager' \in BOOLEAN
    /\ UNCHANGED <<state, started, published, handler, retry, initZone, clockVars, zoneVars,
                   tickVars, callVars, crashes>>

\* TimeTickNotify::Init: Setup starts the timer's thread, or fails, also when the
\* thread runs already.
InitTick ==
    /\ spc = "initTick"
    /\ \/ /\ ~running /\ "tick" \in load.kinds
          /\ running' = TRUE
          /\ spc' = "refresh"
       \/ /\ spc' = "readZone"
          /\ UNCHANGED running
    /\ UNCHANGED <<state, started, published, handler, retry, initZone, manager, clockVars,
                   zoneVars, phase, next, left, tpc, jumped, late, callVars, crashes>>

\* RefreshNextTriggerTime reads the wall clock.
ReadClock ==
    /\ next' = NextTriggerTime
    /\ jumped' = FALSE
    /\ late' = 0

\* Register: the timer counts from now.
Register ==
    /\ left' = next
    /\ next' = None

InitRefresh ==
    /\ spc = "refresh"
    /\ spc' = "register"
    /\ ReadClock
    /\ UNCHANGED <<state, started, published, handler, retry, initZone, manager, clockVars,
                   zoneVars, phase, running, left, tpc, callVars, crashes>>

InitRegister ==
    /\ spc = "register"
    /\ spc' = "readZone"
    /\ Register
    /\ UNCHANGED <<state, started, published, handler, retry, initZone, manager, clockVars,
                   zoneVars, phase, running, tpc, jumped, late, callVars, crashes>>

\* Mutant: every start saves the default.
InitZoneSaved ==
    /\ spc = "readZone"
    /\ initZone' = Default
    /\ zfile' = Default
    /\ tz' = OffsetInTZ(Default)
    /\ zraced' = (zraced \/ ChangingZone(Callers))
    /\ spc' = "assignZone"
    /\ UNCHANGED <<state, started, published, handler, retry, manager, clockVars, zone,
                   zoneSetter, lost, acked, cut, tickVars, callVars, crashes>>

\* TimeZoneInfo::Init up to the assignment.  It returns early when the storage
\* or the environment cannot be set up.
InitZone ==
    /\ spc = "readZone"
    /\ \/ /\ initZone' = ZoneInFile
          /\ tz' = OffsetInTZ(initZone')
          /\ zraced' = (zraced \/ ChangingZone(Callers))
          /\ spc' = "assignZone"
       \/ /\ spc' = "publish"
          /\ UNCHANGED <<initZone, tz, zraced>>
    /\ UNCHANGED <<state, started, published, handler, retry, manager, clockVars, zone, zfile,
                   zoneSetter, lost, acked, cut, tickVars, callVars, crashes>>

InitZoneDone ==
    /\ spc = "assignZone"
    /\ zone' = initZone
    /\ initZone' = None
    /\ spc' = "publish"
    /\ UNCHANGED <<state, started, published, handler, retry, manager, clockVars, tz,
                   zfile, zoneSetter, zraced, lost, acked, cut, tickVars, callVars, crashes>>

\* The end of OnStart: Init publishes the service, or is posted to run again.
Init1 ==
    /\ spc = "publish"
    /\ spc' = "idle"
    /\ \/ published' = TRUE /\ state' = "RUNNING" /\ UNCHANGED retry
       \/ retry' = TRUE /\ UNCHANGED <<published, state>>
    /\ UNCHANGED <<started, handler, initZone, manager, clockVars, zoneVars, tickVars, callVars,
                   crashes>>

\* The second Init, INIT_INTERVAL later, on the handler's thread.  Nothing
\* follows when it fails.
Init2 ==
    /\ retry /\ handler
    /\ retry' = FALSE
    /\ \/ published' = TRUE /\ state' = "RUNNING"
       \/ UNCHANGED <<published, state>>
    /\ UNCHANGED <<started, handler, spc, initZone, manager, clockVars, zoneVars, tickVars,
                   callVars, crashes>>

\* OnStop: the handler goes with what is posted to it, Shutdown waits for the
\* tick's callback.  The service stays published.
OnStop ==
    /\ started /\ spc = "idle"
    /\ started' = FALSE
    /\ IF state # "RUNNING"
       THEN UNCHANGED <<state, handler, retry, running, left>>
       ELSE /\ tpc = "idle"
            /\ handler' = FALSE
            /\ retry' = FALSE
            /\ running' = FALSE
            /\ left' = None
            /\ state' = "NOT_START"
    /\ UNCHANGED <<published, spc, initZone, manager, clockVars, zoneVars, phase, next, tpc, jumped,
                   late, callVars, crashes>>

-----------------------------------------------------------------------------
(* SetTime *)

\* SetTime up to settimeofday.
SetTime(c, time) ==
    /\ Called(c, "time")
    /\ clock' = time
    /\ phase' = time % Minute
    /\ setter' = c
    /\ silent' = FALSE
    /\ rtcCut' = FALSE
    /\ overlap' = \E d \in Callers \ {c} : pc[d] = "rtc"
    /\ jumped' = TRUE
    /\ Goto(c, "rtc")
    /\ arg' = [arg EXCEPT ![c] = time]
    /\ UNCHANGED <<lifeVars, manager, rtc, zoneVars, running, next, left, tpc, late, crashes>>

\* Mutant: the result of set_rtc_time is not looked at.
SetRtcTimeUnchecked(c) ==
    /\ pc[c] = "rtc"
    /\ rtc' \in {rtc, WholeSeconds(arg[c])}
    /\ Goto(c, "event")
    /\ UNCHANGED <<silent, load, arg, calls, lifeVars, manager, clock, setter, rtcCut, overlap,
                   zoneVars, tickVars, crashes>>

\* set_rtc_time writes the hardware clock get_wall_clock_rtc_id chose.  When
\* there is none or it refuses the call ends, with the clock set and nothing
\* published.
SetRtcTime(c) ==
    /\ pc[c] = "rtc"
    /\ \/ /\ rtc' = WholeSeconds(arg[c])
          /\ Goto(c, "event")
          /\ UNCHANGED <<silent, arg>>
       \/ /\ silent' = TRUE
          /\ Goto(c, "idle")
          /\ arg' = [arg EXCEPT ![c] = None]
          /\ UNCHANGED rtc
    /\ UNCHANGED <<lifeVars, manager, clock, setter, rtcCut, overlap, zoneVars, tickVars,
                   load, calls, crashes>>

\* PublishTimeChanageEvents, and the end of the call.
PublishTimeChanageEvents(c) ==
    /\ pc[c] = "event"
    /\ setter' = None
    /\ Goto(c, "idle")
    /\ arg' = [arg EXCEPT ![c] = None]
    /\ UNCHANGED <<lifeVars, manager, clock, rtc, silent, rtcCut, overlap, zoneVars,
                   tickVars, load, calls, crashes>>

-----------------------------------------------------------------------------
(* SetTimeZone *)

\* SetTimezone of a known zone, up to SetOffsetToKernel.
SetTimezone(c, z) ==
    /\ Called(c, "zone")
    /\ tz' = OffsetInTZ(z)
    /\ zoneSetter' = c
    /\ zraced' = ChangingZone(Callers \ {c})
    /\ lost' = FALSE
    /\ Goto(c, "open")
    /\ arg' = [arg EXCEPT ![c] = z]
    /\ UNCHANGED <<lifeVars, manager, clockVars, zone, zfile, acked, cut, tickVars, crashes>>

\* Mutant: SaveTimezoneToFile reports that it could not open the file, and
\* SetTimezone gives up after the offset is set.
OpenZoneFileChecked(c) ==
    /\ pc[c] = "open"
    /\ \/ /\ zfile' = Unreadable
          /\ Goto(c, "write")
          /\ UNCHANGED <<lost, arg>>
       \/ /\ lost' = TRUE
          /\ Goto(c, "idle")
          /\ arg' = [arg EXCEPT ![c] = None]
          /\ UNCHANGED zfile
    /\ UNCHANGED <<lifeVars, manager, clockVars, zone, tz, zoneSetter, zraced, acked, cut,
                   tickVars, load, calls, crashes>>

\* SaveTimezoneToFile opens the file, which truncates it, or fails to and
\* reports success.
OpenZoneFile(c) ==
    /\ pc[c] = "open"
    /\ \/ zfile' = Unreadable /\ Goto(c, "write") /\ UNCHANGED lost
       \/ lost' = TRUE /\ Goto(c, "assign") /\ UNCHANGED zfile
    /\ UNCHANGED <<lifeVars, manager, clockVars, zone, tz, zoneSetter, zraced, acked, cut,
                   tickVars, load, arg, calls, crashes>>

\* Mutant: the file gets the zone that is still current.
WriteOldZone(c) ==
    /\ pc[c] = "write"
    /\ zfile' = (IF zone = None THEN Default ELSE zone)
    /\ Goto(c, "assign")
    /\ UNCHANGED <<lifeVars, manager, clockVars, zone, tz, zoneSetter, zraced, lost, acked, cut,
                   tickVars, load, arg, calls, crashes>>

\* The JSON text is written when the stream is closed; a failure is not seen.
WriteZoneFile(c) ==
    /\ pc[c] = "write"
    /\ \/ zfile' = arg[c] /\ UNCHANGED lost
       \/ lost' = TRUE /\ UNCHANGED zfile
    /\ Goto(c, "assign")
    /\ UNCHANGED <<lifeVars, manager, clockVars, zone, tz, zoneSetter, zraced, acked, cut,
                   tickVars, load, arg, calls, crashes>>

AssignZone(c) ==
    /\ pc[c] = "assign"
    /\ zone' = arg[c]
    /\ Goto(c, "zoneEvent")
    /\ UNCHANGED <<lifeVars, manager, clockVars, tz, zfile, zoneSetter, zraced, lost, acked, cut,
                   tickVars, load, arg, calls, crashes>>

\* PublishTimeZoneChangeEvents, and the end of the call.
PublishTimeZoneChangeEvents(c) ==
    /\ pc[c] = "zoneEvent"
    /\ zoneSetter' = None
    /\ acked' = arg[c]
    /\ cut' = FALSE
    /\ Goto(c, "idle")
    /\ arg' = [arg EXCEPT ![c] = None]
    /\ UNCHANGED <<lifeVars, manager, clockVars, zone, tz, zfile, zraced, lost, tickVars,
                   load, calls, crashes>>

-----------------------------------------------------------------------------
(* The calls on timers: CreateTimer, StartTimer, StopTimer, DestroyTimer,    *)
(* ProxyTimer, ResetAllProxy and the dumps share the lazy creation.          *)

TimerCall(c) ==
    /\ Called(c, "timer")
    /\ Goto(c, IF manager THEN "use" ELSE "create")
    /\ UNCHANGED <<lifeVars, manager, clockVars, zoneVars, tickVars, arg, crashes>>

\* The manager was null: the thread creates one, whatever others have done
\* since, or fails to and returns.
CreateManager(c) ==
    /\ pc[c] = "create"
    /\ \/ manager' = TRUE /\ Goto(c, "use")
       \/ manager' = FALSE /\ Goto(c, "idle")
    /\ UNCHANGED <<lifeVars, clockVars, zoneVars, tickVars, load, arg, calls, crashes>>

\* The call goes to whichever manager the pointer holds by then.
UseManager(c) ==
    /\ pc[c] = "use" /\ manager
    /\ Goto(c, "idle")
    /\ UNCHANGED <<lifeVars, manager, clockVars, zoneVars, tickVars, load, arg, calls, crashes>>

-----------------------------------------------------------------------------
(* The minute tick and the clocks *)

\* Callback: the tick is published and the timer unregistered.
TickFire ==
    /\ running /\ left = 0 /\ tpc = "idle"
    /\ left' = None
    /\ tpc' = "refresh"
    /\ UNCHANGED <<lifeVars, manager, clockVars, zoneVars, phase, running, next, jumped, late,
                   callVars, crashes>>

TickRefresh ==
    /\ tpc = "refresh"
    /\ tpc' = "register"
    /\ ReadClock
    /\ UNCHANGED <<lifeVars, manager, clockVars, zoneVars, phase, running, left, callVars,
                   crashes>>

\* Mutant: registered before the old timer is unregistered, by the same id.
TickRegisterFirst ==
    /\ tpc = "register"
    /\ tpc' = "idle"
    /\ next' = None
    /\ UNCHANGED <<lifeVars, manager, clockVars, zoneVars, phase, running, left, jumped, late,
                   callVars, crashes>>

TickRegister ==
    /\ tpc = "register"
    /\ tpc' = "idle"
    /\ Register
    /\ UNCHANGED <<lifeVars, manager, clockVars, zoneVars, phase, running, jumped, late, callVars,
                   crashes>>

\* Time passes, which only the tick sees.  Its thread may be late: time passes
\* with left = 0 too.
Pass ==
    /\ running
    /\ phase' = (phase + 1) % Minute
    /\ left' = IF left \in {None, 0} THEN left ELSE left - 1
    /\ late' = IF next = None THEN late ELSE (late + 1) % Minute
    /\ UNCHANGED <<lifeVars, manager, clockVars, zoneVars, running, next, tpc, jumped, callVars,
                   crashes>>

\* A new process: what is in memory is gone, the clocks and the file are not.
Restart ==
    /\ state' = "NOT_START" /\ started' = FALSE /\ published' = FALSE /\ handler' = FALSE
    /\ retry' = FALSE /\ spc' = "idle" /\ initZone' = None /\ manager' = FALSE
    /\ setter' = AfterEnd(setter) /\ zoneSetter' = AfterEnd(zoneSetter)
    /\ rtcCut' = (rtcCut \/ \E c \in Callers : pc[c] = "rtc")
    /\ zone' = None /\ tz' = 0 /\ zraced' = FALSE
    /\ cut' = (cut \/ zraced \/ \E c \in Callers : pc[c] \in ZoneSteps)
    /\ running' = FALSE /\ next' = None /\ left' = None /\ tpc' = "idle"
    /\ jumped' = FALSE /\ late' = 0
    /\ pc' = [c \in Callers |-> "idle"] /\ arg' = [c \in Callers |-> None]
    /\ UNCHANGED <<clock, rtc, silent, overlap, zfile, lost, acked, phase, load, calls>>

Crash ==
    /\ crashes < MaxCrashes
    /\ crashes' = crashes + 1
    /\ Restart

\* Another thread's failed creation nulled the pointer this one is about to use.
NullManager(c) ==
    /\ pc[c] = "use" /\ ~manager
    /\ Restart
    /\ UNCHANGED crashes

-----------------------------------------------------------------------------
(* The specification *)

Init ==
    /\ state = "NOT_START" /\ started = FALSE /\ published = FALSE /\ handler = FALSE
    /\ retry = FALSE /\ spc = "idle" /\ initZone = None /\ manager = FALSE
    /\ clock = None /\ rtc = None /\ phase \in 0..(Minute - 1)
    /\ setter = None /\ silent = FALSE /\ rtcCut = FALSE /\ overlap = FALSE
    /\ zone = None /\ tz = 0 /\ zfile = Unreadable /\ zoneSetter = None
    /\ zraced = FALSE /\ lost = FALSE /\ acked = None /\ cut = FALSE
    /\ running = FALSE /\ next = None /\ left = None /\ tpc = "idle"
    /\ jumped = FALSE /\ late = 0
    /\ pc = [c \in Callers |-> "idle"] /\ arg = [c \in Callers |-> None]
    /\ load \in Workloads /\ calls = 0 /\ crashes = 0

MainStep ==
    \/ OnStart
    \/ InitTimerHandler
    \/ InitTick \/ InitRefresh \/ InitRegister
    \/ InitZone \/ InitZoneDone
    \/ Init1 \/ Init2
    \/ OnStop

CallStep(c) ==
    \/ \E time \in Times : SetTime(c, time)
    \/ SetRtcTime(c)
    \/ PublishTimeChanageEvents(c)
    \/ \E z \in Zones : SetTimezone(c, z)
    \/ OpenZoneFile(c)
    \/ WriteZoneFile(c)
    \/ AssignZone(c)
    \/ PublishTimeZoneChangeEvents(c)
    \/ TimerCall(c)
    \/ CreateManager(c)
    \/ UseManager(c)
    \/ NullManager(c)

Next ==
    \/ MainStep
    \/ \E c \in Callers : CallStep(c)
    \/ TickFire \/ TickRefresh \/ TickRegister
    \/ Pass
    \/ Crash

Spec == Init /\ [][Next]_vars

\* The clock runs, and the tick's thread is scheduled; so is the main thread
\* while it registers the first tick.
FairSpec ==
    /\ Spec
    /\ WF_vars(Pass)
    /\ WF_vars(TickFire) /\ WF_vars(TickRefresh) /\ WF_vars(TickRegister)
    /\ WF_vars(InitRefresh) /\ WF_vars(InitRegister)

-----------------------------------------------------------------------------
(* Properties *)

CallerSteps ==
    {"idle", "rtc", "event", "create", "use"} \cup ZoneSteps

LifeOK ==
    /\ state \in {"NOT_START", "RUNNING"} /\ started \in BOOLEAN /\ published \in BOOLEAN
    /\ handler \in BOOLEAN /\ retry \in BOOLEAN
    /\ spc \in {"idle", "createManager", "initTick", "refresh", "register", "readZone",
               "assignZone", "publish"}
    /\ initZone \in Zones \cup {None} /\ manager \in BOOLEAN

ClockOK ==
    /\ clock \in Times \cup {None} /\ rtc \in Nat \cup {None}
    /\ setter \in Callers \cup {None, Ended}
    /\ silent \in BOOLEAN /\ rtcCut \in BOOLEAN /\ overlap \in BOOLEAN

ZoneOK ==
    /\ zone \in Zones \cup {None} /\ tz \in Int /\ zfile \in Zones \cup {Unreadable}
    /\ zoneSetter \in Callers \cup {None, Ended} /\ zraced \in BOOLEAN /\ lost \in BOOLEAN
    /\ acked \in Zones \cup {None} /\ cut \in BOOLEAN

TickOK ==
    /\ phase \in 0..(Minute - 1) /\ running \in BOOLEAN
    /\ next \in (1..Minute) \cup {None} /\ left \in (0..Minute) \cup {None}
    /\ tpc \in {"idle", "refresh", "register"}
    /\ jumped \in BOOLEAN /\ late \in 0..(Minute - 1)

CallsOK ==
    /\ pc \in [Callers -> CallerSteps]
    /\ arg \in [Callers -> Times \cup Zones \cup {None}]
    /\ load \in Workloads /\ calls \in Nat /\ crashes \in Nat

\* Types: what is registered for the tick lies within the minute.
TypeOK == LifeOK /\ ClockOK /\ ZoneOK /\ TickOK /\ CallsOK

\* SetTimezone, TimeZoneInfo::Init: when no change of the zone is in progress,
\* memory and the file name the same zone, and the process runs at the zone's
\* offset if that is not west of UTC (SetOffsetToKernel writes "UTC--5" there and
\* the process runs at UTC); unless changes overlapped or the file could not be
\* written.
ZoneKept ==
    zone # None /\ ~zraced /\ ~lost /\ ~ChangingZone(Callers) =>
        /\ zone = ZoneInFile
        /\ Offset[zone] >= 0 => tz = Offset[zone]

\* SetTimeZone then a crash at any point: the service comes back with the last
\* zone a caller was told is set, unless a later change was cut short by the
\* crash, overlapped another or could not be written.
ZoneDurable ==
    zone # None /\ acked # None /\ ~zraced /\ ~lost /\ ~cut /\ ~ChangingZone(Callers) =>
        zone = acked

\* SetTime and SetTimeZone: a change that took effect has been announced since
\* by an event, or its caller is still on the way to it; unless the process
\* ended on the way, or the hardware clock refused.
ChangesAnnounced ==
    /\ setter \notin {None, Ended} /\ ~silent => pc[setter] \in {"rtc", "event"}
    /\ zoneSetter \notin {None, Ended} => pc[zoneSetter] \in ZoneSteps

\* SetTime, set_rtc_time: once nobody is about to write it, the hardware clock
\* has the whole seconds of what the wall clock was set to; unless it refused,
\* the process ended between the two, or the calls of two threads overlapped.
RtcFollowsClock ==
    ~overlap /\ ~silent /\ ~rtcCut /\ (\A c \in Callers : pc[c] # "rtc") =>
        rtc = WholeSeconds(clock)

\* TimeTickNotify: the registered tick misses the full minute of the wall clock
\* by the time that passed between the reading of the clock and the
\* registration and by nothing else, if the clock is not set in between or
\* later.
TickAligned == left \notin {None, 0} /\ ~jumped => (phase + left) % Minute = late

\* TimeTickNotify::Callback: as long as the service runs there is a next tick.
TicksGoOn == running ~> (tpc = "refresh" \/ ~running)
=============================================================================
