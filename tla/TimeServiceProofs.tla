-------------------------- MODULE TimeServiceProofs --------------------------
(***************************************************************************)
(* The service ability, for every number of binder threads, table of zones *)
(* and length of the minute, and without bounds on calls and crashes:      *)
(* every state is typed; changes are announced; the hardware clock, the    *)
(* zone file and the tick follow.                                          *)
(***************************************************************************)
EXTENDS TimeService, TLAPS

\* The main thread has a zone to assign, and a call's argument is of its kind.
LifeInv == LifeOK /\ (spc = "assignZone" => initZone \in Zones)

CallsInv ==
    /\ CallsOK
    /\ \A c \in Callers : /\ pc[c] \in ZoneSteps => arg[c] \in Zones
                          /\ pc[c] \in {"rtc", "event"} => arg[c] \in Times

TypeInv == LifeInv /\ ClockOK /\ ZoneOK /\ TickOK /\ CallsInv

-----------------------------------------------------------------------------
(* Type correctness *)

\* The position in the minute after a setting of the clock,
LEMMA PhaseType == \A n \in Int : n % Minute \in 0 .. (Minute - 1)
BY ServiceAssumption

\* and when time passes: within two minutes the remainder is a difference.
LEMMA WithinMinute == \A n \in 0 .. (Minute - 1) : n % Minute = n
BY ServiceAssumption

LEMMA SecondMinute == \A n \in 0 .. (Minute - 1) : (n + Minute) % Minute = n
BY ServiceAssumption

\* The time to the next full minute lies within the minute.
LEMMA NextTriggerType == TickOK => NextTriggerTime \in 1 .. Minute
BY ServiceAssumption DEF TickOK, NextTriggerTime

\* WholeSeconds gives seconds.
LEMMA SecondsType == \A time \in Times : WholeSeconds(time) \in Nat
<1> TAKE time \in Times
<1>1. time # None /\ time \in Nat /\ Second \in Nat \ {0}
  BY ServiceAssumption
<1>2. time \div Second \in Nat
  BY <1>1
<1> QED BY <1>1, <1>2 DEF WholeSeconds

\* OffsetInTZ gives hours, for every zone.
LEMMA OffsetType == \A z \in Zones : OffsetInTZ(z) \in Int
BY ServiceAssumption DEF OffsetInTZ

\* Init starts with a zone.
LEMMA ZoneInFileType == ZoneOK => ZoneInFile \in Zones
BY ServiceAssumption DEF ZoneInFile, ZoneOK

\* The initial states are typed.
LEMMA TypeInit == Init => TypeInv
<1> SUFFICES ASSUME Init PROVE TypeInv
  OBVIOUS
<1>1. pc \in [Callers -> CallerSteps] /\ arg \in [Callers -> Times \cup Zones \cup {None}]
  BY DEF Init, CallerSteps
<1>2. CallsInv
  BY <1>1, ServiceAssumption DEF Init, CallsInv, CallsOK, ZoneSteps
<1>3. LifeInv /\ ClockOK
  BY DEF Init, LifeInv, LifeOK, ClockOK
<1>4. tz \in Int
  BY DEF Init
<1>5. ZoneOK
  BY <1>4 DEF Init, ZoneOK
<1>6. TickOK
  <2>1. late \in 0..(Minute - 1) /\ phase \in 0..(Minute - 1)
    BY ServiceAssumption DEF Init
  <2> QED BY <2>1 DEF Init, TickOK
<1> QED BY <1>2, <1>3, <1>5, <1>6 DEF TypeInv

\* What a step leaves alone stays typed.
LEMMA Kept ==
    /\ LifeInv /\ UNCHANGED <<lifeVars, manager>> => LifeInv'
    /\ ClockOK /\ UNCHANGED clockVars => ClockOK'
    /\ ZoneOK /\ UNCHANGED zoneVars => ZoneOK'
    /\ TickOK /\ UNCHANGED tickVars => TickOK'
    /\ CallsInv /\ UNCHANGED <<callVars, crashes>> => CallsInv'
<1>1. LifeInv /\ UNCHANGED <<lifeVars, manager>> => LifeInv'
  BY DEF LifeInv, LifeOK, lifeVars
<1>3. ClockOK /\ UNCHANGED clockVars => ClockOK'
  BY DEF ClockOK, clockVars
<1>4. ZoneOK /\ UNCHANGED zoneVars => ZoneOK'
  BY DEF ZoneOK, zoneVars
<1>5. TickOK /\ UNCHANGED tickVars => TickOK'
  BY DEF TickOK, tickVars
<1>6. CallsInv /\ UNCHANGED <<callVars, crashes>> => CallsInv'
  BY DEF CallsInv, CallsOK, callVars
<1> QED BY <1>1, <1>3, <1>4, <1>5, <1>6

\* A new process starts typed.
LEMMA RestartType ==
    ASSUME TypeInv, Restart, crashes' \in Nat
    PROVE  TypeInv'
<1>1. LifeInv'
  BY DEF Restart, LifeInv, LifeOK
<1>3. ClockOK'
  BY DEF TypeInv, Restart, ClockOK, AfterEnd
<1>4. ZoneOK'
  <2>1. tz' \in Int
    BY DEF Restart
  <2> QED BY <2>1 DEF TypeInv, Restart, ZoneOK, AfterEnd
<1>5. TickOK'
  <2>1. late' \in 0..(Minute - 1)
    BY ServiceAssumption DEF Restart
  <2> QED BY <2>1 DEF TypeInv, Restart, TickOK
<1>6. CallsInv'
  BY DEF TypeInv, Restart, CallsInv, CallsOK, CallerSteps, ZoneSteps
<1> QED BY <1>1, <1>3, <1>4, <1>5, <1>6 DEF TypeInv

\* Every step keeps the types.
LEMMA TypeStep == TypeInv /\ [Next]_vars => TypeInv'
<1> SUFFICES ASSUME TypeInv, [Next]_vars PROVE TypeInv'
  OBVIOUS
<1>1. CASE OnStart
  <2>1. LifeInv'
    BY <1>1 DEF TypeInv, LifeInv, LifeOK, OnStart
  <2> QED
    BY <1>1, <2>1, Kept DEF TypeInv, OnStart
<1>2. CASE InitTimerHandler
  <2>1. LifeInv'
    BY <1>2 DEF TypeInv, LifeInv, LifeOK, InitTimerHandler
  <2> QED
    BY <1>2, <2>1, Kept DEF TypeInv, InitTimerHandler
<1>3. CASE InitTick \/ InitRefresh \/ InitRegister
  <2>1. LifeInv'
    BY <1>3 DEF TypeInv, LifeInv, LifeOK, InitTick, InitRefresh, InitRegister
  <2>2. TickOK'
    <3>1. CASE InitTick
      BY <3>1 DEF TypeInv, TickOK, InitTick
    <3>2. CASE InitRefresh
      <4>1. late' \in 0..(Minute - 1) /\ next' \in 1..Minute
        BY <3>2, NextTriggerType, ServiceAssumption DEF TypeInv, InitRefresh, ReadClock
      <4> QED BY <3>2, <4>1 DEF TypeInv, TickOK, InitRefresh, ReadClock
    <3>3. CASE InitRegister
      BY <3>3, ServiceAssumption DEF TypeInv, TickOK, InitRegister, Register
    <3> QED BY <1>3, <3>1, <3>2, <3>3
  <2> QED
    BY <1>3, <2>1, <2>2, Kept DEF TypeInv, InitTick, InitRefresh, InitRegister
<1>4. CASE InitZone
  <2>1. LifeInv'
    BY <1>4, ZoneInFileType DEF TypeInv, LifeInv, LifeOK, InitZone
  <2>2. ZoneOK'
    BY <1>4, ZoneInFileType, OffsetType DEF TypeInv, ZoneOK, InitZone
  <2> QED
    BY <1>4, <2>1, <2>2, Kept DEF TypeInv, InitZone
<1>5. CASE InitZoneDone
  <2>1. LifeInv'
    BY <1>5 DEF TypeInv, LifeInv, LifeOK, InitZoneDone
  <2>2. ZoneOK'
    BY <1>5 DEF TypeInv, LifeInv, LifeOK, ZoneOK, InitZoneDone
  <2> QED
    BY <1>5, <2>1, <2>2, Kept DEF TypeInv, InitZoneDone
<1>6. CASE Init1
  <2>1. LifeInv'
    BY <1>6 DEF TypeInv, LifeInv, LifeOK, Init1
  <2> QED
    BY <1>6, <2>1, Kept DEF TypeInv, Init1
<1>7. CASE Init2
  <2>1. LifeInv'
    BY <1>7 DEF TypeInv, LifeInv, LifeOK, Init2
  <2> QED
    BY <1>7, <2>1, Kept DEF TypeInv, Init2
<1>8. CASE OnStop
  <2>1. LifeInv'
    BY <1>8 DEF TypeInv, LifeInv, LifeOK, OnStop
  <2>2. TickOK'
    BY <1>8 DEF TypeInv, TickOK, OnStop
  <2> QED
    BY <1>8, <2>1, <2>2, Kept DEF TypeInv, OnStop
<1>9. ASSUME NEW c \in Callers, NEW time \in Times, SetTime(c, time) PROVE TypeInv'
  <2>1. ClockOK'
    BY <1>9 DEF TypeInv, ClockOK, SetTime
  <2>2. TickOK'
    BY <1>9, PhaseType, ServiceAssumption DEF TypeInv, TickOK, SetTime
  <2>3. CallsInv'
    BY <1>9 DEF TypeInv, CallsInv, CallsOK, CallerSteps, ZoneSteps, SetTime, Called, Goto
  <2> QED
    BY <1>9, <2>1, <2>2, <2>3, Kept DEF TypeInv, SetTime, Called
<1>10. ASSUME NEW c \in Callers, SetRtcTime(c) PROVE TypeInv'
  <2>1. ClockOK'
    BY <1>10, SecondsType DEF TypeInv, CallsInv, ZoneSteps, ClockOK, SetRtcTime
  <2>2. CallsInv'
    BY <1>10 DEF TypeInv, CallsInv, CallsOK, CallerSteps, ZoneSteps, SetRtcTime, Goto
  <2> QED
    BY <1>10, <2>1, <2>2, Kept DEF TypeInv, SetRtcTime
<1>11. ASSUME NEW c \in Callers, PublishTimeChanageEvents(c) PROVE TypeInv'
  <2>1. ClockOK'
    BY <1>11 DEF TypeInv, ClockOK, PublishTimeChanageEvents
  <2>2. CallsInv'
    BY <1>11 DEF TypeInv, CallsInv, CallsOK, CallerSteps, ZoneSteps, PublishTimeChanageEvents, Goto
  <2> QED
    BY <1>11, <2>1, <2>2, Kept DEF TypeInv, PublishTimeChanageEvents
<1>12. ASSUME NEW c \in Callers, NEW z \in Zones, SetTimezone(c, z) PROVE TypeInv'
  <2>1. ZoneOK'
    <3>1. zraced' \in BOOLEAN
      BY <1>12 DEF SetTimezone, ChangingZone
    <3> QED BY <1>12, <3>1, OffsetType DEF TypeInv, ZoneOK, SetTimezone
  <2>2. CallsInv'
    BY <1>12 DEF TypeInv, CallsInv, CallsOK, CallerSteps, ZoneSteps, SetTimezone, Called, Goto
  <2> QED
    BY <1>12, <2>1, <2>2, Kept DEF TypeInv, SetTimezone, Called
<1>13. ASSUME NEW c \in Callers, OpenZoneFile(c) PROVE TypeInv'
  <2>1. ZoneOK'
    BY <1>13 DEF TypeInv, ZoneOK, OpenZoneFile
  <2>2. CallsInv'
    BY <1>13 DEF TypeInv, CallsInv, CallsOK, CallerSteps, ZoneSteps, OpenZoneFile, Goto
  <2> QED
    BY <1>13, <2>1, <2>2, Kept DEF TypeInv, OpenZoneFile
<1>14. ASSUME NEW c \in Callers, WriteZoneFile(c) PROVE TypeInv'
  <2>1. ZoneOK'
    BY <1>14 DEF TypeInv, CallsInv, ZoneSteps, ZoneOK, WriteZoneFile
  <2>2. CallsInv'
    BY <1>14 DEF TypeInv, CallsInv, CallsOK, CallerSteps, ZoneSteps, WriteZoneFile, Goto
  <2> QED
    BY <1>14, <2>1, <2>2, Kept DEF TypeInv, WriteZoneFile
<1>15. ASSUME NEW c \in Callers, AssignZone(c) PROVE TypeInv'
  <2>1. ZoneOK'
    BY <1>15 DEF TypeInv, CallsInv, ZoneSteps, ZoneOK, AssignZone
  <2>2. CallsInv'
    BY <1>15 DEF TypeInv, CallsInv, CallsOK, CallerSteps, ZoneSteps, AssignZone, Goto
  <2> QED
    BY <1>15, <2>1, <2>2, Kept DEF TypeInv, AssignZone
<1>16. ASSUME NEW c \in Callers, PublishTimeZoneChangeEvents(c) PROVE TypeInv'
  <2>1. ZoneOK'
    BY <1>16 DEF TypeInv, CallsInv, ZoneSteps, ZoneOK, PublishTimeZoneChangeEvents
  <2>2. CallsInv'
    BY <1>16 DEF TypeInv, CallsInv, CallsOK, CallerSteps, ZoneSteps, PublishTimeZoneChangeEvents,
       Goto
  <2> QED
    BY <1>16, <2>1, <2>2, Kept DEF TypeInv, PublishTimeZoneChangeEvents
<1>17. ASSUME NEW c \in Callers, TimerCall(c) PROVE TypeInv'
  <2>1. CallsInv'
    BY <1>17 DEF TypeInv, CallsInv, CallsOK, CallerSteps, ZoneSteps, TimerCall, Called, Goto
  <2> QED
    BY <1>17, <2>1, Kept DEF TypeInv, TimerCall, Called
<1>18. ASSUME NEW c \in Callers, CreateManager(c) PROVE TypeInv'
  <2>1. LifeInv'
    BY <1>18 DEF TypeInv, LifeInv, LifeOK, lifeVars, CreateManager
  <2>2. CallsInv'
    BY <1>18 DEF TypeInv, CallsInv, CallsOK, CallerSteps, ZoneSteps, CreateManager, Goto
  <2> QED
    BY <1>18, <2>1, <2>2, Kept DEF TypeInv, CreateManager
<1>19. ASSUME NEW c \in Callers, UseManager(c) PROVE TypeInv'
  <2>1. CallsInv'
    BY <1>19 DEF TypeInv, CallsInv, CallsOK, CallerSteps, ZoneSteps, UseManager, Goto
  <2> QED
    BY <1>19, <2>1, Kept DEF TypeInv, UseManager
<1>20. CASE TickFire
  <2>1. TickOK'
    BY <1>20 DEF TypeInv, TickOK, TickFire
  <2> QED
    BY <1>20, <2>1, Kept DEF TypeInv, TickFire
<1>21. CASE TickRefresh \/ TickRegister
  <2>1. TickOK'
    <3>1. CASE TickRefresh
      <4>1. late' \in 0..(Minute - 1) /\ next' \in 1..Minute
        BY <3>1, NextTriggerType, ServiceAssumption DEF TypeInv, TickRefresh, ReadClock
      <4> QED BY <3>1, <4>1 DEF TypeInv, TickOK, TickRefresh, ReadClock
    <3>2. CASE TickRegister
      BY <3>2, ServiceAssumption DEF TypeInv, TickOK, TickRegister, Register
    <3> QED BY <1>21, <3>1, <3>2
  <2> QED
    BY <1>21, <2>1, Kept DEF TypeInv, TickRefresh, TickRegister
<1>22. CASE Pass
  <2>1. TickOK'
    <3>1. phase' \in 0..(Minute - 1)
      BY <1>22, PhaseType, ServiceAssumption DEF TypeInv, TickOK, Pass
    <3>2. late' \in 0..(Minute - 1)
      BY <1>22, PhaseType, ServiceAssumption DEF TypeInv, TickOK, Pass
    <3>3. left' \in (0..Minute) \cup {None}
      BY <1>22, ServiceAssumption DEF TypeInv, TickOK, Pass
    <3> QED BY <1>22, <3>1, <3>2, <3>3 DEF TypeInv, TickOK, Pass
  <2> QED
    BY <1>22, <2>1, Kept DEF TypeInv, Pass
<1>23. ASSUME NEW c \in Callers, NullManager(c) PROVE TypeInv'
  BY <1>23, RestartType DEF NullManager, TypeInv, CallsInv, CallsOK
<1>24. CASE Crash
  BY <1>24, RestartType DEF Crash, TypeInv, CallsInv, CallsOK
<1>25. CASE UNCHANGED vars
  BY <1>25, Kept DEF vars, TypeInv
<1> QED
  BY <1>1, <1>2, <1>3, <1>4, <1>5, <1>6, <1>7, <1>8, <1>9, <1>10, <1>11, <1>12, <1>13, <1>14,
     <1>15, <1>16, <1>17, <1>18, <1>19, <1>20, <1>21, <1>22, <1>23, <1>24, <1>25 DEF Next,
        MainStep, CallStep

\* TimeService: every reachable state is typed, whatever the bounds.
THEOREM ServiceTypeCorrect == Spec => []TypeOK
<1>1. TypeInv => TypeOK
  BY DEF TypeInv, LifeInv, CallsInv, TypeOK
<1> QED BY TypeInit, TypeStep, <1>1, PTL DEF Spec

-----------------------------------------------------------------------------
(* The tick *)

\* The steps of Init between the start of the timer's thread and Register.
TickSteps == {"refresh", "register"}

\* Who moves the tick, the minute and the ghosts between them.
LEMMA TickChanges ==
    ASSUME [Next]_vars
    PROVE  \/ InitTick \/ InitRefresh \/ InitRegister \/ OnStop
           \/ TickFire \/ TickRefresh \/ TickRegister \/ Pass \/ Restart
           \/ \E c \in Callers, time \in Times : SetTime(c, time)
           \/ /\ UNCHANGED tickVars
              /\ spc' = spc \/ (spc \notin TickSteps /\ spc' \notin TickSteps)
<1> DEFINE Still == /\ UNCHANGED tickVars
                    /\ spc' = spc \/ (spc \notin TickSteps /\ spc' \notin TickSteps)
<1> USE DEF TickSteps
<1>1. MainStep => InitTick \/ InitRefresh \/ InitRegister \/ OnStop \/ Still
  BY DEF MainStep, OnStart, InitTimerHandler, InitZone, InitZoneDone, Init1, Init2
<1>2. ASSUME NEW c \in Callers, CallStep(c)
      PROVE  (\E time \in Times : SetTime(c, time)) \/ Restart \/ Still
  BY <1>2 DEF CallStep, SetRtcTime, PublishTimeChanageEvents, SetTimezone, OpenZoneFile,
          WriteZoneFile, AssignZone, PublishTimeZoneChangeEvents, TimerCall, CreateManager,
          UseManager, NullManager, lifeVars
<1>3. UNCHANGED vars => Still
  BY DEF vars, lifeVars
<1> QED
  BY <1>1, <1>2, <1>3 DEF Next, Crash

\* A time that is about to be registered and one that is registered reach the full
\* minute by the same measure; there is one of them at most, and none without the
\* timer's thread.
TickInv ==
    /\ ~running => left = None /\ next = None
    /\ spc \in TickSteps => running /\ left = None /\ tpc = "idle"
    /\ tpc # "idle" => running /\ left = None
    /\ next # None => left = None /\ (spc = "register" \/ tpc = "register")
    /\ next # None /\ ~jumped => (phase + next) % Minute = late
    /\ TickAligned

\* Time passes by the same measure in the minute and in what is left of it.
LEMMA PassKeepsDistance ==
    ASSUME NEW p \in 0 .. (Minute - 1), NEW k \in 1 .. Minute
    PROVE  (((p + 1) % Minute) + (k - 1)) % Minute = (p + k) % Minute
<1>0. Minute \in Nat \ {0} /\ p \in Int /\ k \in Int
  BY ServiceAssumption
<1>1. CASE p + 1 < Minute
  <2>1. (p + 1) % Minute = p + 1
    BY <1>0, <1>1, WithinMinute
  <2> QED BY <1>0, <2>1
<1>2. CASE p + 1 = Minute
  <2>1. (p + 1) % Minute = 0
    BY <1>0, <1>2, SecondMinute
  <2>2. k - 1 \in 0 .. (Minute - 1) /\ p + k = (k - 1) + Minute
    BY <1>0, <1>2
  <2> QED BY <1>0, <2>1, <2>2, WithinMinute, SecondMinute
<1> QED BY <1>0, <1>1, <1>2

\* While a time waits to be registered the distance grows with the clock.
LEMMA PassAddsDistance ==
    ASSUME NEW p \in 0 .. (Minute - 1), NEW k \in 1 .. Minute
    PROVE  (((p + 1) % Minute) + k) % Minute = (((p + k) % Minute) + 1) % Minute
<1>0. Minute \in Nat \ {0} /\ p \in Int /\ k \in Int
  BY ServiceAssumption
<1> DEFINE d == (p + k) % Minute
<1>1. d \in 0 .. (Minute - 1) /\ (p + k = d \/ p + k = d + Minute)
  <2>1. CASE p + k < Minute
    BY <1>0, <2>1, WithinMinute
  <2>2. CASE p + k >= Minute
    <3>1. (p + k) - Minute \in 0 .. (Minute - 1)
      BY <1>0, <2>2
    <3>2. (((p + k) - Minute) + Minute) % Minute = (p + k) - Minute
      BY <3>1, SecondMinute
    <3>3. ((p + k) - Minute) + Minute = p + k
      BY <1>0
    <3>4. d = (p + k) - Minute
      BY <3>2, <3>3
    <3> HIDE DEF d
    <3> QED BY <1>0, <3>1, <3>4
  <2> QED BY <1>0, <2>1, <2>2
<1> HIDE DEF d
<1>2. (d + 1) % Minute = IF d + 1 = Minute THEN 0 ELSE d + 1
  <2>1. CASE d + 1 = Minute
    BY <1>0, <1>1, <2>1, SecondMinute
  <2>2. CASE d + 1 # Minute
    BY <1>0, <1>1, <2>2, WithinMinute
  <2> QED BY <2>1, <2>2
<1>3. (p + 1) % Minute = IF p + 1 = Minute THEN 0 ELSE p + 1
  <2>1. CASE p + 1 = Minute
    BY <1>0, <2>1, SecondMinute
  <2>2. CASE p + 1 # Minute
    BY <1>0, <2>2, WithinMinute
  <2> QED BY <2>1, <2>2
<1> DEFINE q == ((p + 1) % Minute) + k
           r == (d + 1) % Minute
<1>4. r \in 0 .. (Minute - 1) /\ (q = r \/ q = r + Minute)
  BY <1>0, <1>1, <1>2, <1>3
<1> HIDE DEF q, r
<1>5. q % Minute = r
  BY <1>4, WithinMinute, SecondMinute
<1> QED BY <1>5 DEF q, r, d

\* RefreshNextTriggerTime: what it computes is the distance to the full minute.
LEMMA ReadInv == TickOK => (phase + NextTriggerTime) % Minute = 0
<1> SUFFICES ASSUME TickOK PROVE (phase + NextTriggerTime) % Minute = 0
  OBVIOUS
<1>1. phase + NextTriggerTime = 0 + Minute /\ 0 \in 0 .. (Minute - 1)
  BY ServiceAssumption DEF TickOK, NextTriggerTime
<1> QED BY <1>1, SecondMinute

\* TimeTickNotify: the registered tick misses the full minute of the wall clock
\* by the time that passed between the reading of the clock and the registration
\* and by nothing else, if the clock is not set in between or later.
THEOREM TicksAreAligned == Spec => []TickAligned
<1>1. Init => TickInv
  BY DEF Init, TickInv, TickAligned, TickSteps
<1>2. ASSUME TypeInv, TickInv, [Next]_vars PROVE TickInv'
  <2>0. TickOK /\ None \notin Int
    BY <1>2, ServiceAssumption DEF TypeInv
  <2> USE <1>2, <2>0 DEF TickInv, TickAligned, TickSteps
  <2>1. CASE InitTick
    BY <2>1 DEF InitTick
  <2>2. CASE InitRefresh
    BY <2>2, ReadInv, NextTriggerType DEF InitRefresh, ReadClock
  <2>3. CASE InitRegister
    BY <2>3 DEF InitRegister, Register
  <2>4. CASE OnStop
    BY <2>4 DEF OnStop
  <2>5. CASE TickFire
    BY <2>5 DEF TickFire, lifeVars
  <2>6. CASE TickRefresh
    BY <2>6, ReadInv, NextTriggerType DEF TickRefresh, ReadClock, lifeVars
  <2>7. CASE TickRegister
    BY <2>7 DEF TickRegister, Register, lifeVars
  <2>8. CASE Pass
    <3>1. UNCHANGED <<spc, tpc, running, next, jumped>>
      BY <2>8 DEF Pass, lifeVars
    <3>2. next # None => left' = None
      BY <2>8 DEF Pass
    <3>3. ASSUME next # None, ~jumped PROVE (phase' + next) % Minute = late'
      <4>1. next \in 1 .. Minute /\ phase \in 0 .. (Minute - 1) /\ (phase + next) % Minute = late
        BY <3>3 DEF TickOK
      <4>2. phase' = (phase + 1) % Minute /\ late' = (late + 1) % Minute
        BY <2>8, <3>3 DEF Pass
      <4>3. (((phase + 1) % Minute) + next) % Minute = (((phase + next) % Minute) + 1) % Minute
        BY <4>1, PassAddsDistance
      <4> QED BY ONLY <4>1, <4>2, <4>3
    <3>4. ASSUME left' \notin {None, 0}, ~jumped PROVE (phase' + left') % Minute = late'
      <4>1. left \notin {None, 0} /\ left' = left - 1 /\ next = None
        BY <2>8, <3>4, <3>2 DEF Pass
      <4>2. left \in 1 .. Minute /\ phase \in 0 .. (Minute - 1) /\ (phase + left) % Minute = late
        BY <4>1, <3>4 DEF TickOK
      <4>3. phase' = (phase + 1) % Minute /\ late' = late
        BY <2>8, <4>1 DEF Pass
      <4>4. (((phase + 1) % Minute) + (left - 1)) % Minute = (phase + left) % Minute
        BY <4>2, PassKeepsDistance
      <4> QED BY ONLY <4>1, <4>2, <4>3, <4>4
    <3>5. left = None => left' = None
      BY <2>8 DEF Pass
    <3> QED BY <3>1, <3>2, <3>3, <3>4, <3>5
  <2>9. CASE Restart
    BY <2>9 DEF Restart
  <2>10. ASSUME NEW c \in Callers, NEW time \in Times, SetTime(c, time) PROVE TickInv'
    BY <2>10 DEF SetTime, lifeVars
  <2>11. CASE UNCHANGED tickVars /\ (spc' = spc \/ (spc \notin TickSteps /\ spc' \notin TickSteps))
    BY <2>11 DEF tickVars
  <2> QED
    BY <2>1, <2>2, <2>3, <2>4, <2>5, <2>6, <2>7, <2>8, <2>9, <2>10, <2>11, TickChanges
<1>3. TickInv => TickAligned
  BY DEF TickInv
<1> QED BY <1>1, <1>2, <1>3, TypeInit, TypeStep, PTL DEF Spec

-----------------------------------------------------------------------------
(* Changes are announced *)

\* The steps outside the calls leave the calls and the clock alone.
LEMMA OtherSteps ==
    ASSUME MainStep \/ TickFire \/ TickRefresh \/ TickRegister \/ Pass
    PROVE  UNCHANGED <<clockVars, callVars, zoneSetter>>
<1>1. UNCHANGED <<clockVars, callVars>>
  BY DEF MainStep, OnStart, InitTimerHandler, InitTick, InitRefresh, InitRegister, InitZone,
     InitZoneDone, Init1, Init2, OnStop, TickFire, TickRefresh, TickRegister, Pass
<1>2. zoneSetter' = zoneSetter
  BY DEF MainStep, OnStart, InitTimerHandler, InitTick, InitRefresh, InitRegister, InitZone,
     InitZoneDone, Init1, Init2, OnStop, TickFire, TickRefresh, TickRegister, Pass, zoneVars
<1> QED BY <1>1, <1>2

\* SetTime and SetTimeZone: a change that took effect has been announced since
\* by an event, or its caller is still on the way to it; unless the process
\* ended on the way, or the hardware clock refused.
THEOREM ChangesAreAnnounced == Spec => []ChangesAnnounced
<1>1. Init => ChangesAnnounced
  BY DEF Init, ChangesAnnounced
<1>2. ASSUME TypeInv, ChangesAnnounced, [Next]_vars PROVE ChangesAnnounced'
  <2>0. /\ pc \in [Callers -> CallerSteps]
        /\ setter \in Callers \cup {None, Ended} /\ zoneSetter \in Callers \cup {None, Ended}
    BY <1>2 DEF TypeInv, CallsInv, CallsOK, ClockOK, ZoneOK
  <2> USE <1>2, <2>0 DEF ChangesAnnounced, ZoneSteps, Goto
  <2>1. CASE MainStep \/ TickFire \/ TickRefresh \/ TickRegister \/ Pass
    BY <2>1, OtherSteps DEF clockVars, callVars
  <2>2. ASSUME NEW c \in Callers, NEW time \in Times, SetTime(c, time) PROVE ChangesAnnounced'
    BY <2>2 DEF SetTime, Called, zoneVars
  <2>3. ASSUME NEW c \in Callers, SetRtcTime(c) PROVE ChangesAnnounced'
    BY <2>3 DEF SetRtcTime, zoneVars
  <2>4. ASSUME NEW c \in Callers, PublishTimeChanageEvents(c) PROVE ChangesAnnounced'
    BY <2>4 DEF PublishTimeChanageEvents, zoneVars
  <2>5. ASSUME NEW c \in Callers, NEW z \in Zones, SetTimezone(c, z) PROVE ChangesAnnounced'
    BY <2>5 DEF SetTimezone, Called, clockVars
  <2>6. ASSUME NEW c \in Callers, OpenZoneFile(c) \/ WriteZoneFile(c) \/ AssignZone(c)
        PROVE  ChangesAnnounced'
    BY <2>6 DEF OpenZoneFile, WriteZoneFile, AssignZone, clockVars
  <2>7. ASSUME NEW c \in Callers, PublishTimeZoneChangeEvents(c) PROVE ChangesAnnounced'
    BY <2>7 DEF PublishTimeZoneChangeEvents, clockVars
  <2>8. ASSUME NEW c \in Callers, TimerCall(c) \/ CreateManager(c) \/ UseManager(c)
        PROVE  ChangesAnnounced'
    BY <2>8 DEF TimerCall, Called, CreateManager, UseManager, clockVars, zoneVars
  <2>9. CASE Restart
    BY <2>9 DEF Restart, AfterEnd
  <2>10. CASE UNCHANGED vars
    BY <2>10 DEF vars, clockVars, zoneVars, callVars
  <2> QED
    BY <2>1, <2>2, <2>3, <2>4, <2>5, <2>6, <2>7, <2>8, <2>9, <2>10
       DEF Next, CallStep, Crash, NullManager
<1> QED BY <1>1, <1>2, TypeInit, TypeStep, PTL DEF Spec

-----------------------------------------------------------------------------
(* The hardware clock *)

\* Unless settings overlapped, a thread about to write the hardware clock
\* writes what the wall clock was last set to.
RtcInv ==
    /\ ~overlap => \A c \in Callers : pc[c] = "rtc" => arg[c] = clock
    /\ RtcFollowsClock

\* SetTime, set_rtc_time: once nobody is about to write it, the hardware clock
\* has the whole seconds of what the wall clock was set to; unless it refused,
\* the process ended between the two, or the calls of two threads overlapped.
THEOREM HardwareClockFollows == Spec => []RtcFollowsClock
<1>1. Init => RtcInv
  BY DEF Init, RtcInv, RtcFollowsClock, WholeSeconds
<1>2. ASSUME TypeInv, RtcInv, [Next]_vars PROVE RtcInv'
  <2>0. pc \in [Callers -> CallerSteps] /\ arg \in [Callers -> Times \cup Zones \cup {None}]
    BY <1>2 DEF TypeInv, CallsInv, CallsOK
  <2> USE <1>2, <2>0 DEF RtcInv, RtcFollowsClock, ZoneSteps, Goto
  <2>1. CASE MainStep \/ TickFire \/ TickRefresh \/ TickRegister \/ Pass
    BY <2>1, OtherSteps DEF clockVars, callVars
  <2>2. ASSUME NEW c \in Callers, NEW time \in Times, SetTime(c, time) PROVE RtcInv'
    BY <2>2 DEF SetTime, Called
  <2>3. ASSUME NEW c \in Callers, SetRtcTime(c) PROVE RtcInv'
    BY <2>3 DEF SetRtcTime
  <2>4. ASSUME NEW c \in Callers, PublishTimeChanageEvents(c) PROVE RtcInv'
    BY <2>4 DEF PublishTimeChanageEvents
  <2>5. ASSUME NEW c \in Callers, NEW z \in Zones, SetTimezone(c, z) PROVE RtcInv'
    BY <2>5 DEF SetTimezone, Called, clockVars
  <2>6. ASSUME NEW c \in Callers, OpenZoneFile(c) \/ WriteZoneFile(c) \/ AssignZone(c)
        PROVE  RtcInv'
    BY <2>6 DEF OpenZoneFile, WriteZoneFile, AssignZone, clockVars
  <2>7. ASSUME NEW c \in Callers, PublishTimeZoneChangeEvents(c) PROVE RtcInv'
    BY <2>7 DEF PublishTimeZoneChangeEvents, clockVars
  <2>8. ASSUME NEW c \in Callers, TimerCall(c) \/ CreateManager(c) \/ UseManager(c)
        PROVE  RtcInv'
    BY <2>8 DEF TimerCall, Called, CreateManager, UseManager, clockVars
  <2>9. CASE Restart
    BY <2>9 DEF Restart
  <2>10. CASE UNCHANGED vars
    BY <2>10 DEF vars, clockVars, callVars
  <2> QED
    BY <2>1, <2>2, <2>3, <2>4, <2>5, <2>6, <2>7, <2>8, <2>9, <2>10
       DEF Next, CallStep, Crash, NullManager
<1>3. RtcInv => RtcFollowsClock
  BY DEF RtcInv
<1> QED BY <1>1, <1>2, <1>3, TypeInit, TypeStep, PTL DEF Spec

-----------------------------------------------------------------------------
(* The time zone *)

\* SetTimezone and Init agree on what is in TZ, west of UTC too.
ZoneSame ==
    zone # None /\ ~lost /\ ~ChangingZone(Callers) =>
        zone = ZoneInFile /\ tz = OffsetInTZ(zone)

\* Unless changes of the zone overlapped: there is one at a time; the process has
\* the offset of the one in progress, its zone is in the file once it is written,
\* and in memory once it is assigned; and the file holds the zone of the last
\* caller who was told of success, if nobody changes it and no crash cut a
\* change short.
ZoneInv ==
    ~zraced =>
        /\ \A c, d \in Callers : pc[c] \in ZoneSteps /\ pc[d] \in ZoneSteps => c = d
        /\ spc = "assignZone" =>
               /\ \A c \in Callers : pc[c] \notin ZoneSteps
               /\ initZone = ZoneInFile /\ tz = OffsetInTZ(initZone)
        /\ \A c \in Callers :
               /\ pc[c] \in ZoneSteps => tz = OffsetInTZ(arg[c])
               /\ pc[c] \in {"assign", "zoneEvent"} /\ ~lost => zfile = arg[c]
               /\ pc[c] = "zoneEvent" => zone = arg[c]
        /\ ZoneSame
        /\ acked # None /\ ~cut /\ ~lost /\ (\A c \in Callers : pc[c] \notin ZoneSteps) =>
               zfile = acked

\* Every step keeps the zone's invariant.
LEMMA ZoneStep == TypeInv /\ ZoneInv /\ [Next]_vars => ZoneInv'
<1> SUFFICES ASSUME TypeInv, ZoneInv, [Next]_vars PROVE ZoneInv'
  OBVIOUS
<1>0. /\ pc \in [Callers -> CallerSteps] /\ arg \in [Callers -> Times \cup Zones \cup {None}]
      /\ \A c \in Callers : pc[c] \in ZoneSteps => arg[c] \in Zones
      /\ Unreadable \notin Zones
  BY ServiceAssumption DEF TypeInv, CallsInv, CallsOK
<1> USE <1>0 DEF ZoneInv, ZoneSame, ZoneInFile, ZoneSteps, ChangingZone
<1>1. CASE OnStart \/ InitTimerHandler \/ InitTick \/ InitRefresh \/ InitRegister
  BY <1>1 DEF OnStart, InitTimerHandler, InitTick, InitRefresh, InitRegister, zoneVars, callVars
<1>2. CASE InitZone
  BY <1>2 DEF InitZone, callVars
<1>3. CASE InitZoneDone
  BY <1>3 DEF InitZoneDone, callVars
<1>4. CASE Init1 \/ Init2 \/ OnStop
  BY <1>4 DEF Init1, Init2, OnStop, zoneVars, callVars
<1>5. CASE TickFire \/ TickRefresh \/ TickRegister \/ Pass
  BY <1>5 DEF TickFire, TickRefresh, TickRegister, Pass, lifeVars, zoneVars, callVars
<1>6. ASSUME NEW c \in Callers, NEW time \in Times, SetTime(c, time) PROVE ZoneInv'
  BY <1>6 DEF SetTime, Called, Goto, lifeVars, zoneVars
<1>7. ASSUME NEW c \in Callers, SetRtcTime(c) \/ PublishTimeChanageEvents(c) PROVE ZoneInv'
  BY <1>7 DEF SetRtcTime, PublishTimeChanageEvents, Goto, lifeVars, zoneVars
<1>8. ASSUME NEW c \in Callers, NEW z \in Zones, SetTimezone(c, z) PROVE ZoneInv'
  BY <1>8 DEF SetTimezone, Called, Goto, lifeVars
<1>9. ASSUME NEW c \in Callers, OpenZoneFile(c) PROVE ZoneInv'
  BY <1>9 DEF OpenZoneFile, Goto, lifeVars
<1>10. ASSUME NEW c \in Callers, WriteZoneFile(c) PROVE ZoneInv'
  BY <1>10 DEF WriteZoneFile, Goto, lifeVars
<1>11. ASSUME NEW c \in Callers, AssignZone(c) PROVE ZoneInv'
  BY <1>11 DEF AssignZone, Goto, lifeVars
<1>12. ASSUME NEW c \in Callers, PublishTimeZoneChangeEvents(c) PROVE ZoneInv'
  BY <1>12 DEF PublishTimeZoneChangeEvents, Goto, lifeVars
<1>13. ASSUME NEW c \in Callers, TimerCall(c) \/ CreateManager(c) \/ UseManager(c) PROVE ZoneInv'
  BY <1>13 DEF TimerCall, Called, CreateManager, UseManager, Goto, lifeVars, zoneVars
<1>14. CASE Restart
  BY <1>14 DEF Restart
<1>15. CASE UNCHANGED vars
  BY <1>15 DEF vars, lifeVars, zoneVars, callVars
<1> QED
  BY <1>1, <1>2, <1>3, <1>4, <1>5, <1>6, <1>7, <1>8, <1>9, <1>10, <1>11, <1>12, <1>13, <1>14,
     <1>15 DEF Next, MainStep, CallStep, Crash, NullManager

\* The initial state satisfies it.
LEMMA ZoneInit == Init => ZoneInv
BY DEF Init, ZoneInv, ZoneSame, ZoneSteps

\* SetTimezone, TimeZoneInfo::Init: whenever no change is in progress memory and the
\* file name the same zone, and the process runs at the zone's offset if that is not
\* west of UTC; unless changes overlapped or the file could not be written.
THEOREM ZoneIsKept == Spec => []ZoneKept
<1>1. TypeInv /\ ZoneInv => ZoneKept
  BY DEF TypeInv, ZoneOK, ZoneInv, ZoneSame, ZoneKept, OffsetInTZ
<1> QED BY <1>1, ZoneInit, ZoneStep, TypeInit, TypeStep, PTL DEF Spec

\* SetTimeZone, then a crash at any point: the service comes back with the last
\* zone a caller was told is set, unless a later change was cut short by the
\* crash, overlapped another or could not be written.
THEOREM ZoneIsDurable == Spec => []ZoneDurable
<1>1. TypeInv /\ ZoneInv => ZoneDurable
  BY ServiceAssumption
     DEF TypeInv, ZoneOK, ZoneInv, ZoneSame, ZoneDurable, ZoneInFile, ChangingZone
<1> QED BY <1>1, ZoneInit, ZoneStep, TypeInit, TypeStep, PTL DEF Spec

=============================================================================
