------------------------- MODULE TimerWakeupProofs --------------------------
(***************************************************************************)
(* The looper of TimerManager for every value of the constants: a change   *)
(* of the wall clock is digested before it sleeps, and it never sleeps on  *)
(* a queue without a descriptor that will wake it.                         *)
(***************************************************************************)
EXTENDS TimerManagerProofs

-----------------------------------------------------------------------------
(* Clock changes *)

\* The offset the alarms were last rebatched for is within the tolerance, and the
\* time between the two readings, of the real one.
Digested == lastOff # None => rtcOff - lastOff \in (-Tolerance) .. (Tolerance + lag)

\* A clock change is known to the kernel (clockSet), or to the looper (it has read
\* the descriptor, or compares the clocks it has read, which are lag apart), or
\* digested.
DriftInv ==
    ~clockSet =>
        /\ lpc = "sampled" /\ "CHANGED" \in result => nowRtc + lag = boot + rtcOff
        /\ lpc = "changed" => nowRtc + lag = now + rtcOff
        /\ \/ lpc = "changed"
           \/ lpc \in {"read", "sampled"} /\ "CHANGED" \in result
           \/ Digested

\* Neither the clocks nor what the looper knows of them changes.
LEMMA DriftQuiet ==
    ASSUME DriftInv, UNCHANGED <<clockVars, lastOff, lpc, result, nowRtc, now>>
    PROVE  DriftInv'
BY DEF DriftInv, Digested, clockVars

\* Every step keeps a clock change in one of these places.
LEMMA DriftStep == TypeInv /\ DriftInv /\ [Next]_vars => DriftInv'
<1> SUFFICES ASSUME TypeInv, DriftInv, [Next]_vars PROVE DriftInv'
  OBVIOUS
<1> USE DEF clockVars, callVars, readdVars, looperVars, proxyVars, ghostVars
<1>0. TypeOK /\ ControlOK
  BY DEF TypeInv
<1>1. CASE Client \/ CommitTimer \/ RemoveLocked \/ RemoveDone \/ RemoveProxy \/ ReAddTimerLocked
           \/ PopBatch \/ Proxy \/ UNCHANGED vars
  <2>1. UNCHANGED <<clockVars, lastOff, result, nowRtc, now>>
    BY <1>1
    DEF Client, CreateTimer, StartTimer, StopTimerInner, CommitTimer, RemoveLocked, RemoveDone,
        RemoveProxy, ReAddTimerLocked, PopBatch, Proxy, ProxyTimerOn, ProxyTimerOff, ResetAllProxy,
        vars
  <2>2. lpc' = lpc \/ (lpc = "pop" /\ lpc' = "deliver")
    BY <1>1
    DEF Client, CreateTimer, StartTimer, StopTimerInner, CommitTimer, RemoveLocked, RemoveDone,
        RemoveProxy, ReAddTimerLocked, PopBatch, Proxy, ProxyTimerOn, ProxyTimerOff, ResetAllProxy,
        vars
  <2> QED BY <2>1, <2>2 DEF DriftInv, Digested
<1>2. CASE TriggerTimersLocked \/ DeliverTimersLocked
  BY <1>2, DriftQuiet DEF TriggerTimersLocked, DeliverTimersLocked
<1>3. CASE ReBatchDone \/ EpollWait \/ Interrupted \/ BeginTrigger \/ DeliverDone
  <2>1. UNCHANGED <<clockVars, lastOff>>
    BY <1>3 DEF ReBatchDone, EpollWait, Interrupted, BeginTrigger, DeliverDone
  <2>2. /\ lpc' \notin {"sampled", "changed"} \/ UNCHANGED <<lpc, nowRtc, now, result>>
        /\ \/ lpc \in {"wait", "rebatch", "trigger", "deliver"}
           \/ lpc' = lpc /\ (lpc \in {"read", "sampled"} /\ "CHANGED" \in result =>
                                 "CHANGED" \in result')
           \/ lpc' = "read" /\ "CHANGED" \in result'
    BY <1>3 DEF ReBatchDone, EpollWait, Interrupted, BeginTrigger, DeliverDone, Events
  <2> QED BY <2>1, <2>2 DEF DriftInv, Digested
<1>4. CASE \E f \in Events : ReadFd(f)
  <2>1. /\ UNCHANGED <<boot, rtcOff, lag, lastOff, lpc, nowRtc, now>> /\ lpc = "read"
        /\ result \subseteq result'
        /\ clockSet' = clockSet \/ "CHANGED" \in result'
    BY <1>4 DEF ReadFd
  <2> QED BY <2>1 DEF DriftInv, Digested
<1>5. CASE SampleRtc \/ SampleElapsed
  <2>0. boot \in Int /\ rtcOff \in Int
    BY <1>0 DEF TypeOK
  <2>1. CASE SampleRtc
    <3>1. /\ UNCHANGED <<boot, rtcOff, clockSet, lastOff, result>> /\ lpc = "read"
          /\ lpc' = "sampled" /\ nowRtc' = boot + rtcOff
          /\ lag' = IF "CHANGED" \in result THEN 0 ELSE lag
      BY <2>1 DEF SampleRtc
    <3>2. CASE "CHANGED" \in result
      <4>1. nowRtc' + lag' = boot + rtcOff
        BY <2>0, <3>1, <3>2
      <4> QED BY <3>1, <3>2, <4>1 DEF DriftInv
    <3>3. CASE "CHANGED" \notin result
      BY <3>1, <3>3 DEF DriftInv, Digested
    <3> QED BY <3>2, <3>3
  <2>2. CASE SampleElapsed
    <3>1. /\ UNCHANGED <<clockVars, lastOff, result>> /\ lpc = "sampled" /\ now' = boot
          /\ IF "CHANGED" \in result THEN lpc' = "changed" /\ nowRtc' = nowRtc
                                     ELSE lpc' = "trigger"
      BY <2>2 DEF SampleElapsed
    <3> QED BY <3>1 DEF DriftInv, Digested
  <2> QED BY <1>5, <2>1, <2>2
<1>6. CASE TimeChanged
  <2>1. UNCHANGED clockVars /\ lpc = "changed" /\ lpc' \in {"rebatch", "trigger"}
    BY <1>6 DEF TimeChanged
  <2>2. /\ nowRtc \in Int /\ now \in Int /\ rtcOff \in Int /\ lag \in Nat /\ Tolerance \in Nat
        /\ lastOff \in Int \cup {None} /\ None \notin Int
    BY <1>0, <2>1, ConstantsAssumption DEF ControlOK, TypeOK
  <2>3. ~clockSet => rtcOff = OffsetRead + lag /\ OffsetRead \in Int
    BY <2>1, <2>2 DEF DriftInv, OffsetRead
  <2>4. CASE ClockMoved
    <3>1. lastOff' = OffsetRead
      BY <1>6, <2>4 DEF TimeChanged
    <3>2. ~clockSet => rtcOff - OffsetRead \in (-Tolerance) .. (Tolerance + lag)
      BY <2>2, <2>3
    <3> QED BY <2>1, <3>1, <3>2 DEF DriftInv, Digested
  <2>5. CASE ~ClockMoved
    <3>1. lastOff' = lastOff /\ lastOff # None
      BY <1>6, <2>5 DEF TimeChanged, ClockMoved
    <3>2. OffsetRead - lastOff \in (-Tolerance) .. Tolerance
      BY <2>5 DEF ClockMoved
    <3>3. ~clockSet => rtcOff - lastOff \in (-Tolerance) .. (Tolerance + lag)
      BY <2>2, <2>3, <3>1, <3>2
    <3> QED BY <2>1, <3>1, <3>3 DEF DriftInv, Digested
  <2> QED BY <2>4, <2>5
<1>7. CASE \E off \in Offsets : SetTime(off)
  BY <1>7 DEF SetTime, DriftInv
<1>8. CASE Tick
  <2>1. /\ UNCHANGED <<clockSet, rtcOff, lastOff, lpc, result, nowRtc, now>> /\ boot' = boot + 1
        /\ lag' = IF lpc = "sampled" /\ "CHANGED" \in result THEN lag + 1 ELSE lag
    BY <1>8 DEF Tick
  <2>2. /\ boot \in Int /\ rtcOff \in Int /\ lag \in Nat /\ Tolerance \in Nat
        /\ lastOff \in Int \cup {None}
        /\ (lpc = "sampled" => nowRtc \in Int)
    BY <1>0, ConstantsAssumption DEF TypeOK, ControlOK
  <2>3. Digested => Digested'
    BY <2>1, <2>2 DEF Digested
  <2>4. CASE lpc = "sampled" /\ "CHANGED" \in result
    <3>1. nowRtc + lag = boot + rtcOff => nowRtc + lag' = boot' + rtcOff
      BY <2>1, <2>2, <2>4
    <3> QED BY <2>1, <2>4, <3>1 DEF DriftInv
  <2>5. CASE ~(lpc = "sampled" /\ "CHANGED" \in result)
    BY <2>1, <2>3, <2>5 DEF DriftInv
  <2> QED BY <2>4, <2>5
<1> QED
  BY <1>1, <1>2, <1>3, <1>4, <1>5, <1>6, <1>7, <1>8
  DEF Next, ApiStep, LooperStep, Environment

\* ClockDriftBounded for every value of the constants: whatever SetTime does
\* between the readings of TimerLooper, between them and the rebatch, and while
\* signals interrupt it, when the looper sleeps and the kernel has no change to
\* report the alarms follow an offset within the tolerance of the real one and, on
\* one side, the time that passed between its two readings.
THEOREM ClockChangesAreDigested == Spec => []ClockDriftBounded
<1>1. Init => DriftInv
  BY DEF Init, DriftInv, Digested
<1>2. DriftInv => ClockDriftBounded
  BY DEF DriftInv, Digested, ClockDriftBounded
<1> QED BY <1>1, <1>2, TypeInit, TypeStep, DriftStep, PTL DEF Spec

-----------------------------------------------------------------------------
(* Arming the kernel *)

Wakes(list) == \E a \in AlarmsOf(list) : a.prof.wakeup

\* A descriptor is armed, the one that wakes the device if an alarm asks for it.
Armed(list, timers) ==
    list # <<>> =>
        /\ \E f \in Fds : timers[f] # None
        /\ Wakes(list) => timers["WAKE"] # None

\* While ReBatchAllTimersLocked runs on the API thread the list is not complete.
ArmedInv == lpc = "wait" /\ apc # "rebatch" => Armed(batches, fd)

\* Outside of a pass of TriggerTimersLocked no batch starts before the boot clock
\* did.  timerfd_settime takes zero for disarming and refuses negative times.
AfterBoot == lpc # "pop" => \A i \in 1 .. Len(batches) : batches[i].start > 0

\* FindFirstWakeupBatchLocked finds a batch when there is one, and only then.
LEMMA FirstWakeup ==
    ASSUME NEW list \in Seq(BatchType)
    PROVE  FindFirstWakeupBatchLocked(list) # {} <=> Wakes(list)
<1> DEFINE T == {i \in 1 .. Len(list) : HasWakeups(list[i])}
<1>1. Len(list) \in Nat /\ T \in SUBSET Nat
  BY LenProperties
<1>2. T # {} <=> Wakes(list)
  BY InAlarmsOf DEF Wakes, HasWakeups
<1>3. ASSUME T # {} PROVE FindFirstWakeupBatchLocked(list) # {}
  <2>1. PICK t \in T : \A y \in T : t <= y
    BY <1>1, <1>3, NatLeast
  <2>2. t \in 1 .. Len(list) /\ HasWakeups(list[t])
    BY <2>1
  <2>3. \A j \in 1 .. t - 1 : ~HasWakeups(list[j])
    <3> SUFFICES ASSUME NEW j \in 1 .. t - 1, HasWakeups(list[j]) PROVE FALSE
      OBVIOUS
    <3>1. j \in 1 .. Len(list) /\ j < t /\ j \in Nat /\ t \in Nat
      BY <1>1, <2>2
    <3>2. t <= j
      BY <2>1, <3>1
    <3> QED BY <3>1, <3>2
  <2> QED BY <2>2, <2>3 DEF FindFirstWakeupBatchLocked
<1>4. FindFirstWakeupBatchLocked(list) \subseteq T
  BY DEF FindFirstWakeupBatchLocked
<1> QED BY <1>2, <1>3, <1>4

\* RescheduleKernelTimerLocked arms the kernel for a list of times it takes.
LEMMA RescheduleArms ==
    ASSUME NEW list \in Seq(BatchType), \A i \in 1 .. Len(list) : list[i].start > 0
    PROVE  Armed(list, RescheduleKernelTimerLocked(list))
<1> DEFINE first == FindFirstWakeupBatchLocked(list)
           i == CHOOSE i \in first : TRUE
           new == RescheduleKernelTimerLocked(list)
<1> SUFFICES ASSUME list # <<>>
             PROVE  /\ \E f \in Fds : new[f] # None
                    /\ Wakes(list) => new["WAKE"] # None
  BY DEF Armed
<1>1. \A k \in 1 .. Len(list) : list[k].start \in Int /\ list[k].start > 0
  BY BatchFields
<1>2. \A old : \A k \in 1 .. Len(list) : Set(old, list[k].start) # None
  BY <1>1, ConstantsAssumption DEF Set
<1>3. 1 \in 1 .. Len(list)
  BY EmptySeq, LenProperties
<1>4. first # {} => i \in 1 .. Len(list)
  BY DEF FindFirstWakeupBatchLocked
<1>5. first # {} <=> Wakes(list)
  BY FirstWakeup
<1>6. /\ "WAKE" \in Fds /\ "ELAPSED" \in Fds
      /\ first # {} => new["WAKE"] = Set(fd["WAKE"], list[i].start)
      /\ first = {} => new["ELAPSED"] = Set(fd["ELAPSED"], list[1].start)
  BY DEF RescheduleKernelTimerLocked, Fds
<1> HIDE DEF first, i, new
<1>7. CASE first # {}
  BY <1>2, <1>4, <1>6, <1>7
<1>8. CASE first = {}
  BY <1>2, <1>3, <1>5, <1>6, <1>8
<1> QED BY <1>7, <1>8

\* A list that only loses alarms stays armed.
LEMMA ArmedShrink ==
    ASSUME NEW timers, NEW list, NEW rest, Armed(list, timers),
           rest # <<>> => list # <<>>, AlarmsOf(rest) \subseteq AlarmsOf(list)
    PROVE  Armed(rest, timers)
BY DEF Armed, Wakes

\* A step that moves neither thread and neither the list nor the descriptors.
LEMMA ArmedQuiet ==
    ASSUME ArmedInv, UNCHANGED <<batches, fd, lpc>>,
           apc' # "rebatch" => apc # "rebatch"
    PROVE  ArmedInv'
BY DEF ArmedInv

\* Every step to the sleeping looper arms the kernel or finds it armed.
LEMMA ArmedStep == TypeInv /\ ArmedInv /\ AfterBoot /\ AfterBoot' /\ [Next]_vars => ArmedInv'
<1> SUFFICES ASSUME TypeInv, ArmedInv, AfterBoot, AfterBoot', [Next]_vars PROVE ArmedInv'
  OBVIOUS
<1> USE DEF clockVars, callVars, readdVars, looperVars, proxyVars, ghostVars
<1>0. TypeOK /\ ControlOK /\ batches \in Seq(BatchType)
  BY DEF TypeInv, TypeOK
<1>1. CASE Client \/ RemoveProxy \/ Proxy \/ Tick \/ (\E off \in Offsets : SetTime(off))
           \/ UNCHANGED vars
  <2>1. UNCHANGED <<batches, fd, lpc>> /\ (apc' # "rebatch" => apc # "rebatch")
    BY <1>1
    DEF Client, CreateTimer, StartTimer, StopTimerInner, RemoveProxy, Proxy, ProxyTimerOn,
        ProxyTimerOff, ResetAllProxy, Tick, SetTime, vars
  <2> QED BY <2>1, ArmedQuiet
<1>2. CASE CommitTimer
  <2>1. PICK a \in pending : SetHandlerLocked(a)
    BY <1>2 DEF CommitTimer
  <2>2. a \in Alarm
    BY <1>0, <2>1 DEF TypeOK
  <2>3. batches' \in Seq(BatchType) /\ fd' = RescheduleKernelTimerLocked(batches')
    BY <1>0, <2>1, <2>2, SetHandlerProperties DEF SetHandlerLocked, TypeInv
  <2>4. CASE lpc' = "wait"
    <3>1. \A i \in 1 .. Len(batches') : batches'[i].start > 0
      BY <2>4 DEF AfterBoot
    <3>2. Armed(batches', fd')
      BY <2>3, <3>1, RescheduleArms
    <3> QED BY <3>2 DEF ArmedInv
  <2> QED BY <2>4 DEF ArmedInv
<1>3. CASE RemoveLocked
  <2>1. UNCHANGED <<fd, lpc, apc>> /\ apc = "remove" /\ call.pos <= Len(batches)
    BY <1>3 DEF RemoveLocked
  <2>2. AlarmsOf(batches') \subseteq AlarmsOf(batches)
    BY <1>3, RemoveLockedProperties
  <2>3. batches # <<>>
    BY <1>0, <2>1, EmptySeq, LenProperties DEF ControlOK, TypeOK
  <2> QED BY <2>1, <2>2, <2>3, ArmedShrink DEF ArmedInv
<1>4. CASE RemoveDone
  <2>1. CASE call.did
    BY <1>4, <2>1 DEF RemoveDone, ArmedInv
  <2>2. CASE ~call.did
    <3>1. UNCHANGED <<batches, fd, lpc>> /\ apc = "remove"
      BY <1>4, <2>2 DEF RemoveDone
    <3> QED BY <3>1, ArmedQuiet
  <2> QED BY <2>1, <2>2
<1>5. CASE ReBatchDone \/ DeliverDone
  <2>1. /\ batches' = batches /\ fd' = RescheduleKernelTimerLocked(batches)
        /\ lpc # "pop"
    BY <1>0, <1>5 DEF ReBatchDone, DeliverDone, ControlOK
  <2>2. Armed(batches', fd')
    BY <1>0, <2>1, RescheduleArms DEF AfterBoot
  <2> QED BY <2>2 DEF ArmedInv
<1>6. CASE BeginTrigger
  <2>1. CASE result = {"CHANGED"}
    <3>1. batches' = batches /\ fd' = RescheduleKernelTimerLocked(batches) /\ lpc # "pop"
      BY <1>6, <2>1 DEF BeginTrigger
    <3>2. Armed(batches', fd')
      BY <1>0, <3>1, RescheduleArms DEF AfterBoot
    <3> QED BY <3>2 DEF ArmedInv
  <2>2. CASE result # {"CHANGED"}
    BY <1>6, <2>2 DEF BeginTrigger, ArmedInv
  <2> QED BY <2>1, <2>2
<1>7. CASE EpollWait \/ Interrupted \/ (\E f \in Events : ReadFd(f)) \/ SampleRtc
           \/ SampleElapsed \/ TimeChanged \/ PopBatch \/ TriggerTimersLocked \/ DeliverTimersLocked
  <2>1. lpc' # "wait"
    BY <1>7
    DEF EpollWait, Interrupted, ReadFd, SampleRtc, SampleElapsed, TimeChanged, PopBatch,
        TriggerTimersLocked, DeliverTimersLocked
  <2> QED BY <2>1 DEF ArmedInv
<1>8. CASE (apc = "rebatch" \/ lpc = "rebatch") /\ ReAddTimerLocked
  BY <1>8 DEF ReAddTimerLocked, ArmedInv
<1> QED
  BY <1>1, <1>2, <1>3, <1>4, <1>5, <1>6, <1>7, <1>8
  DEF Next, ApiStep, LooperStep, Environment

\* WakeupArmed for every value of the constants, as long as no batch starts before
\* the boot clock did: StartTimer, a stop at any of its steps, a rebatch on either
\* thread and the end of a pass leave the kernel armed for a list that is not empty.
THEOREM SleepingLooperIsArmed == Spec /\ []AfterBoot => []WakeupArmed
<1>1. Init => ArmedInv
  BY DEF Init, ArmedInv, Armed
<1>2. TypeInv /\ ArmedInv => WakeupArmed
  <2> SUFFICES ASSUME TypeInv, ArmedInv, lpc = "wait", mutex = "none", batches # <<>>
               PROVE  /\ \E f \in Fds : fd[f] # None
                      /\ FindFirstWakeupBatchLocked(batches) # {} => fd["WAKE"] # None
    BY DEF WakeupArmed
  <2>1. apc # "rebatch" /\ batches \in Seq(BatchType)
    BY DEF TypeInv, TypeOK, ControlOK
  <2> QED BY <2>1, FirstWakeup DEF ArmedInv, Armed
<1> QED BY <1>1, <1>2, TypeInit, TypeStep, ArmedStep, PTL DEF Spec

-----------------------------------------------------------------------------
(* Timers whose next period stays after boot *)

\* Repeating timers follow the boot clock.  TriggerTimersLocked counts the periods
\* from the time the alarm was built for, which ReAddTimerLocked does not move:
\* after a wall clock jumped forward the count may be below one.
PeriodsFollowBootClock == \A prof \in Profiles : prof.rtc => prof.interval = 0

\* SetHandler does not clamp the trigger time of a repeating timer by more than its
\* interval within MIN_FUTURITY of boot.  Such an alarm loses the clamp when it is
\* added again, and its next period may be earlier by what it was clamped by.
LateStart ==
    \A a \in pending' \ pending :
        a.interval > 0 => a.expected = a.when \/ MinFuturity <= a.interval \/ boot > MinFuturity

\* An alarm is due after boot.  A repeating one is due when it was built for or, added
\* again, when it was asked for; if these differ by more than an interval, late
\* enough after boot.
Sound(a) ==
    /\ a.whenElapsed > 0
    /\ a.interval > 0 =>
          /\ ~a.prof.rtc /\ a.whenElapsed \in {a.when, a.expected}
          /\ a.when <= a.expected /\ a.expected <= a.when + MinFuturity
          /\ a.expected = a.when \/ MinFuturity <= a.interval \/ a.when > MinFuturity

SoundInv ==
    /\ boot > 0
    /\ apc = "rebatch" \/ lpc = "rebatch" => readdNow > 0
    /\ \A a \in AlarmsOf(batches) : Sound(a)
    /\ \A a \in AlarmsOf(readd) : Sound(a)
    /\ \A a \in pending : Sound(a)
    /\ \A a \in popped : Sound(a)

\* The periods that are skipped are not negative when less than one is missing, and
\* otherwise go back by less than what is missing.
LEMMA PeriodsSkipped ==
    ASSUME NEW n \in Int, NEW d \in Nat, d > 0
    PROVE  /\ (1 + TruncDiv(n, d)) * d \in Int
           /\ -d <= n => (1 + TruncDiv(n, d)) * d \in Nat
           /\ n < 0 => n < (1 + TruncDiv(n, d)) * d
<1>1. CASE n >= 0
  <2>1. n \div d \in Nat
    BY <1>1
  <2>2. 1 + TruncDiv(n, d) \in Nat
    BY <1>1, <2>1 DEF TruncDiv
  <2>3. \A x, y \in Nat : x * y \in Nat
    OBVIOUS
  <2> QED BY <1>1, <2>2, <2>3
<1>2. CASE n < 0
  <2> DEFINE q == (-n) \div d
  <2>1. q \in Nat /\ d * q <= -n
    BY <1>2, SMT
  <2>2. TruncDiv(n, d) = -q
    BY <1>2 DEF TruncDiv
  <2>3. -d <= n => q \in {0, 1}
    BY <1>2, SMT
  <2> HIDE DEF q
  <2>4. (1 + (-q)) * d = d - d * q /\ d * q \in Int
    BY <2>1
  <2>5. n < (1 + (-q)) * d
    BY <2>1, <2>4
  <2>6. q \in {0, 1} => (1 + (-q)) * d \in Nat
    BY <2>4
  <2> QED BY <2>2, <2>3, <2>4, <2>5, <2>6
<1> QED BY <1>1, <1>2

\* The alarm SetHandler builds.
LEMMA SoundNew ==
    ASSUME TypeOK, PeriodsFollowBootClock, boot > 0, NEW id \in Ids, NEW prof \in Profiles,
           NEW when \in Int, NEW si \in IsSystemUid(prof.uid), NEW sf \in IsSystemUid(prof.uid),
           ~(ConvertToElapsed(when, prof.rtc) < boot),
           LET a == NewAlarm(id, prof, when, si, sf)
           IN  a.interval > 0 => a.expected = a.when \/ MinFuturity <= a.interval
                                 \/ boot > MinFuturity
    PROVE  Sound(NewAlarm(id, prof, when, si, sf))
<1> DEFINE a == NewAlarm(id, prof, when, si, sf)
           min == IF si THEN MinIntervalSystem ELSE MinIntervalApp
           interval == ClampInterval(prof.interval, min)
           nominal  == ConvertToElapsed(when, prof.rtc)
           earliest == boot + (IF sf THEN 0 ELSE MinFuturity)
           trigger  == IF nominal > earliest THEN nominal ELSE earliest
<1>1. si \in BOOLEAN /\ sf \in BOOLEAN
  BY DEF IsSystemUid
<1>2. /\ prof.interval \in Nat /\ prof.rtc \in BOOLEAN /\ MinFuturity \in Nat /\ MaxInterval \in Nat
      /\ MinIntervalSystem \in Nat /\ MinIntervalApp \in Nat /\ boot \in Nat /\ rtcOff \in Int
  BY ConstantsAssumption DEF TypeOK
<1>3. /\ a.whenElapsed = trigger /\ a.expected = trigger /\ a.when = when
      /\ a.interval = interval /\ a.prof = prof
  BY DEF NewAlarm, TimerInfo
<1>4. min \in Nat
  BY <1>1, <1>2
<1>5. interval > 0 => prof.interval > 0
  <2> HIDE DEF min
  <2> QED BY <1>2, <1>4 DEF ClampInterval
<1>6. prof.interval > 0 => ~prof.rtc
  BY DEF PeriodsFollowBootClock
<1>7. nominal \in Int /\ boot <= nominal /\ (~prof.rtc => nominal = when)
  BY <1>2 DEF ConvertToElapsed
<1>8. earliest \in Int /\ boot <= earliest /\ earliest <= boot + MinFuturity
  BY <1>2
<1>9. interval > 0 => trigger = when \/ MinFuturity <= interval \/ boot > MinFuturity
  BY <1>3
<1> HIDE DEF nominal, earliest
<1>10. trigger \in Int /\ trigger > 0 /\ nominal <= trigger /\ trigger <= nominal + MinFuturity
  BY <1>2, <1>7, <1>8
<1>11. nominal = when /\ boot > MinFuturity => when > MinFuturity
  BY <1>2, <1>7
<1> HIDE DEF a, interval, trigger
<1> QED BY <1>3, <1>5, <1>6, <1>7, <1>9, <1>10, <1>11 DEF Sound, a

\* An alarm that is added again.
LEMMA SoundRecomputed ==
    ASSUME TypeOK, readdNow \in Int, readdNow > 0, NEW a \in Alarm, Sound(a),
           ~(ConvertToElapsed(a.when, a.prof.rtc) < readdNow)
    PROVE  Sound(Recomputed(a))
<1> DEFINE c == Recomputed(a)
           we == ConvertToElapsed(a.when, a.prof.rtc)
<1>1. /\ c.whenElapsed = we /\ c.when = a.when /\ c.expected = a.expected
      /\ c.interval = a.interval /\ c.prof = a.prof
  BY DEF Recomputed, Alarm
<1>2. /\ a.when \in Int /\ a.whenElapsed \in Int /\ a.expected \in Int /\ a.interval \in Nat
      /\ a.prof.rtc \in BOOLEAN /\ rtcOff \in Int /\ MinFuturity \in Nat
  BY AlarmFields, ConstantsAssumption DEF TypeOK
<1>3. we \in Int /\ we > 0 /\ (~a.prof.rtc => we = a.when)
  BY <1>2 DEF ConvertToElapsed
<1> HIDE DEF c, we
<1> QED BY <1>1, <1>2, <1>3 DEF Sound, c

\* The alarm for the next period of one that is due.
LEMMA SoundNextPeriod ==
    ASSUME TypeOK, now \in Int, NEW a \in Alarm, Sound(a), a.interval > 0, a.whenElapsed <= now
    PROVE  Sound(NextPeriod(a))
<1> DEFINE c == NextPeriod(a)
           delta == (1 + TruncDiv(now - a.expected, a.interval)) * a.interval
<1>1. /\ c.whenElapsed = a.whenElapsed + delta /\ c.when = a.when + delta
      /\ c.expected = a.whenElapsed + delta /\ c.interval = a.interval /\ c.prof = a.prof
  BY DEF NextPeriod, TimerInfo
<1>2. /\ a.when \in Int /\ a.whenElapsed \in Int /\ a.expected \in Int /\ a.interval \in Nat
      /\ MinFuturity \in Nat
  BY AlarmFields, ConstantsAssumption
<1>3. /\ a.whenElapsed > 0 /\ ~a.prof.rtc /\ a.whenElapsed \in {a.when, a.expected}
      /\ a.when <= a.expected /\ a.expected <= a.when + MinFuturity
      /\ a.expected = a.when \/ MinFuturity <= a.interval \/ a.when > MinFuturity
  BY DEF Sound
<1> DEFINE n == now - a.expected
<1>4. n \in Int /\ a.whenElapsed - a.expected <= n
  BY <1>2
<1>5. delta \in Int /\ (-a.interval <= n => delta \in Nat) /\ (n < 0 => n < delta)
  BY <1>2, <1>4, PeriodsSkipped
<1> HIDE DEF c, delta, n
<1>6. CASE delta \in Nat
  <2>1. /\ a.whenElapsed + delta > 0
        /\ a.when + delta <= a.whenElapsed + delta
        /\ a.whenElapsed + delta <= (a.when + delta) + MinFuturity
    BY <1>2, <1>3, <1>6
  <2>2. a.expected = a.when => a.whenElapsed + delta = a.when + delta
    BY <1>3
  <2>3. a.when > MinFuturity => a.when + delta > MinFuturity
    BY <1>2, <1>6
  <2>4. /\ c.whenElapsed > 0 /\ c.whenElapsed \in {c.when, c.expected}
        /\ c.when <= c.expected /\ c.expected <= c.when + MinFuturity
    BY <1>1, <2>1
  <2>5. c.expected = c.when \/ MinFuturity <= c.interval \/ c.when > MinFuturity
    BY <1>1, <1>3, <2>2, <2>3
  <2>6. ~c.prof.rtc
    BY <1>1, <1>3
  <2> QED BY <2>4, <2>5, <2>6 DEF Sound, c
<1>7. CASE delta \notin Nat
  <2>1. delta < 0 /\ n < -a.interval /\ n < 0
    BY <1>2, <1>4, <1>5, <1>7
  <2>2. a.whenElapsed = a.when /\ a.when > MinFuturity
    BY <1>2, <1>3, <1>4, <2>1
  <2>3. a.when + delta > 0
    BY <1>2, <1>3, <1>4, <1>5, <2>1, <2>2
  <2>4. /\ a.when + delta \in Int
        /\ a.when + delta <= a.when + delta
        /\ a.when + delta <= (a.when + delta) + MinFuturity
    BY <1>2, <1>5
  <2>5. /\ c.whenElapsed > 0 /\ c.whenElapsed \in {c.when, c.expected}
        /\ c.when <= c.expected /\ c.expected <= c.when + MinFuturity
        /\ c.expected = c.when
    BY <1>1, <2>2, <2>3, <2>4
  <2>6. ~c.prof.rtc
    BY <1>1, <1>3
  <2> QED BY <2>5, <2>6 DEF Sound, c
<1> QED BY <1>6, <1>7

\* A step that brings no alarm into a list and starts no rebatch.
LEMMA SoundShrink ==
    ASSUME SoundInv, boot' = boot \/ boot' > 0,
           apc' = "rebatch" \/ lpc' = "rebatch" =>
               readdNow' > 0 \/ (readdNow' = readdNow /\ (apc = "rebatch" \/ lpc = "rebatch")),
           \A a \in AlarmsOf(batches') : Sound(a),
           \A a \in AlarmsOf(readd') : Sound(a),
           pending' \subseteq pending, popped' \subseteq popped
    PROVE  SoundInv'
BY DEF SoundInv

\* Every step keeps the alarms sound.
LEMMA SoundStep ==
    ASSUME PeriodsFollowBootClock
    PROVE  TypeInv /\ DueInv /\ SoundInv /\ [Next]_vars /\ [LateStart]_vars => SoundInv'
<1> SUFFICES ASSUME TypeInv, DueInv, SoundInv, [Next]_vars, [LateStart]_vars PROVE SoundInv'
  OBVIOUS
<1> USE DEF clockVars, callVars, readdVars, looperVars, proxyVars, ghostVars
<1>0. /\ TypeOK /\ ControlOK /\ AllWellFormed(batches) /\ batches \in Seq(BatchType)
      /\ readd \in Seq(BatchType)
      /\ \A a \in AlarmsOf(batches) : Sound(a)
      /\ \A a \in AlarmsOf(readd) : Sound(a)
  BY DEF TypeInv, TypeOK, SoundInv
<1>1. CASE (\E id \in Ids, prof \in Profiles : CreateTimer(id, prof))
           \/ (\E id \in Ids, needDestroy \in BOOLEAN : StopTimerInner(id, needDestroy))
           \/ RemoveProxy \/ ReBatchDone \/ EpollWait \/ Interrupted
           \/ (\E f \in Events : ReadFd(f))
           \/ SampleRtc \/ SampleElapsed \/ BeginTrigger \/ DeliverTimersLocked \/ DeliverDone
           \/ Proxy \/ Tick \/ (\E off \in Offsets : SetTime(off)) \/ UNCHANGED vars
  <2>1. /\ UNCHANGED <<batches, readd, pending, popped>>
        /\ apc' = "rebatch" \/ lpc' = "rebatch" =>
               readdNow' = readdNow /\ (apc = "rebatch" \/ lpc = "rebatch")
    <3>1. CASE ReBatchDone
      BY <1>0, <3>1 DEF ReBatchDone, ControlOK
    <3>2. CASE ~ReBatchDone
      BY <1>1, <3>2
      DEF CreateTimer, StopTimerInner, RemoveProxy, EpollWait, Interrupted, ReadFd, SampleRtc,
          SampleElapsed,
          BeginTrigger, DeliverTimersLocked, DeliverDone, Proxy, ProxyTimerOn, ProxyTimerOff,
          ResetAllProxy, Tick, SetTime, vars
    <3> QED BY <3>1, <3>2
  <2>2. boot' = boot \/ boot' = boot + 1
    BY <1>1
    DEF CreateTimer, StopTimerInner, RemoveProxy, ReBatchDone, EpollWait, Interrupted, ReadFd,
        SampleRtc, SampleElapsed, BeginTrigger, DeliverTimersLocked, DeliverDone, Proxy,
        ProxyTimerOn,
        ProxyTimerOff, ResetAllProxy, Tick, SetTime, vars
  <2>3. boot' = boot \/ boot' > 0
    BY <1>0, <2>2 DEF TypeOK
  <2> QED BY <1>0, <2>1, <2>3, SoundShrink
<1>2. ASSUME NEW id \in Ids, NEW delay \in Delays, StartTimer(id, delay) PROVE SoundInv'
  <2>1. /\ UNCHANGED <<boot, batches, readd, readdNow, popped, lpc>> /\ apc = "idle"
        /\ apc' \in {"idle", "commit"} /\ entries[id] \in Profiles
    BY <1>2 DEF StartTimer
  <2> DEFINE prof == entries[id]
             when == delay + boot + (IF prof.rtc THEN rtcOff ELSE 0)
  <2>2. when \in Int
    BY <1>0, ConstantsAssumption DEF TypeOK
  <2>3. CASE pending' = pending
    BY <1>0, <2>1, <2>3 DEF SoundInv
  <2>4. CASE pending' # pending
    <3>1. /\ ~(ConvertToElapsed(when, prof.rtc) < boot)
          /\ \E si, sf \in IsSystemUid(prof.uid) : pending' = {NewAlarm(id, prof, when, si, sf)}
      BY <1>2, <2>4 DEF StartTimer
    <3>2. boot > 0 /\ pending = {}
      BY <1>0, <2>1 DEF SoundInv, ControlOK
    <3>3. LateStart
      BY <2>4 DEF vars, callVars
    <3> HIDE DEF prof, when
    <3>4. prof \in Profiles
      BY <2>1 DEF prof
    <3>5. ASSUME NEW si \in IsSystemUid(prof.uid), NEW sf \in IsSystemUid(prof.uid),
                 pending' = {NewAlarm(id, prof, when, si, sf)}
          PROVE  \A a \in pending' : Sound(a)
      <4> DEFINE c == NewAlarm(id, prof, when, si, sf)
      <4>1. c.interval > 0 => c.expected = c.when \/ MinFuturity <= c.interval
                              \/ boot > MinFuturity
        BY <3>2, <3>3, <3>5 DEF LateStart
      <4>2. Sound(c)
        BY <1>0, <2>2, <3>1, <3>2, <3>4, <4>1, SoundNew
      <4> QED BY <3>5, <4>2
    <3>6. \A a \in pending' : Sound(a)
      BY <3>1, <3>5
    <3> QED BY <1>0, <2>1, <3>6 DEF SoundInv
  <2> QED BY <2>3, <2>4
<1>3. CASE CommitTimer
  <2>1. PICK a \in pending : SetHandlerLocked(a)
    BY <1>3 DEF CommitTimer
  <2>2. a \in Alarm /\ Sound(a)
    BY <1>0, <2>1 DEF TypeOK, SoundInv
  <2>3. AlarmsOf(batches') = AlarmsOf(batches) \cup {a}
    BY <1>0, <2>1, <2>2, SetHandlerProperties
  <2>4. /\ UNCHANGED <<boot, readd, readdNow, popped, lpc>> /\ pending' = {} /\ apc' = "idle"
    BY <1>3 DEF CommitTimer
  <2>5. \A c \in AlarmsOf(batches') : Sound(c)
    BY <1>0, <2>2, <2>3
  <2> QED BY <1>0, <2>4, <2>5, SoundShrink
<1>4. CASE RemoveLocked
  <2>1. AlarmsOf(batches') \subseteq AlarmsOf(batches)
    BY <1>4, RemoveLockedProperties
  <2>2. UNCHANGED <<boot, readd, readdNow, pending, popped, lpc, apc>>
    BY <1>4 DEF RemoveLocked
  <2> QED BY <1>0, <2>1, <2>2, SoundShrink
<1>5. CASE RemoveDone \/ TimeChanged
  <2>1. UNCHANGED <<boot, pending, popped>> /\ readd = <<>>
    BY <1>0, <1>5 DEF RemoveDone, TimeChanged, ControlOK
  <2>2. CASE BeginReBatch
    <3>1. readd' = batches /\ batches' = <<>> /\ readdNow' = boot /\ boot > 0
      BY <2>2 DEF BeginReBatch, SoundInv
    <3>2. AlarmsOf(batches') = {} /\ AlarmsOf(readd') = AlarmsOf(batches)
      BY <3>1, AlarmsOfEmpty
    <3> QED BY <1>0, <2>1, <3>1, <3>2, SoundShrink
  <2>3. CASE ~BeginReBatch
    <3>1. /\ UNCHANGED <<batches, readd, readdNow>>
          /\ apc' = "rebatch" \/ lpc' = "rebatch" => apc = "rebatch" \/ lpc = "rebatch"
      BY <1>5, <2>3 DEF RemoveDone, TimeChanged
    <3> QED BY <1>0, <2>1, <3>1, SoundShrink
  <2> QED BY <2>2, <2>3
<1>6. CASE ReAddTimerLocked
  <2>1. PICK a \in readd[1].alarms :
          /\ readd' = DropFirst(readd, a)
          /\ IF ConvertToElapsed(a.when, a.prof.rtc) < readdNow
             THEN UNCHANGED batches
             ELSE batches' \in InsertAndBatchTimerLocked(batches, Recomputed(a))
    BY <1>6 DEF ReAddTimerLocked, NextOf
  <2>2. readd # <<>> /\ readdNow \in Int /\ readdNow > 0
    BY <1>0, <1>6 DEF ControlOK, ReAddTimerLocked, SoundInv
  <2>3. a \in Alarm /\ AlarmsOf(readd') \subseteq AlarmsOf(readd)
    BY <1>0, <2>1, <2>2, DropFirstProperties
  <2>4. Sound(a)
    <3>1. 1 \in 1 .. Len(readd)
      BY <1>0, <2>2, EmptySeq, LenProperties
    <3>2. a \in AlarmsOf(readd)
      BY <3>1, <2>1, InAlarmsOf
    <3> QED BY <1>0, <3>2
  <2>5. UNCHANGED <<boot, readdNow, pending, popped, apc, lpc>>
    BY <1>6 DEF ReAddTimerLocked
  <2>6. \A c \in AlarmsOf(batches') : Sound(c)
    <3>1. CASE ConvertToElapsed(a.when, a.prof.rtc) < readdNow
      BY <1>0, <2>1, <3>1
    <3>2. CASE ~(ConvertToElapsed(a.when, a.prof.rtc) < readdNow)
      <4> DEFINE c == Recomputed(a)
      <4>1. c \in Alarm /\ Sound(c)
        BY <1>0, <2>2, <2>3, <2>4, <3>2, RecomputedType, SoundRecomputed
      <4>2. batches' \in InsertAndBatchTimerLocked(batches, c)
        BY <2>1, <3>2
      <4> HIDE DEF c
      <4>3. AlarmsOf(batches') = AlarmsOf(batches) \cup {c}
        BY <1>0, <4>1, <4>2, InsertProperties
      <4> QED BY <1>0, <4>1, <4>3
    <3> QED BY <3>1, <3>2
  <2> QED BY <1>0, <2>2, <2>3, <2>5, <2>6, SoundShrink
<1>7. CASE PopBatch
  <2>1. UNCHANGED <<boot, readd, readdNow, pending, apc>> /\ lpc' \in {"pop", "deliver"}
        /\ lpc = "pop" /\ popped = {}
    BY <1>7 DEF PopBatch
  <2>2. CASE HeadIsDue
    <3>1. batches # <<>> /\ batches' = Tail(batches) /\ popped' = batches[1].alarms
      BY <1>7, <2>2 DEF PopBatch, HeadIsDue
    <3>2. AlarmsOf(batches') \cup popped' = AlarmsOf(batches)
      BY <1>0, <3>1, TailProperties
    <3> QED BY <1>0, <2>1, <3>2 DEF SoundInv
  <2>3. CASE ~HeadIsDue
    <3>1. UNCHANGED <<batches, popped>>
      BY <1>7, <2>3 DEF PopBatch
    <3> QED BY <1>0, <2>1, <3>1, SoundShrink
  <2> QED BY <2>2, <2>3
<1>8. CASE TriggerTimersLocked
  <2>1. PICK a \in popped :
          /\ popped' = popped \ {a}
          /\ IF a.interval > 0
             THEN SetHandlerLocked(NextPeriod(a))
             ELSE UNCHANGED batches
    BY <1>8 DEF TriggerTimersLocked, NextOf
  <2>2. a \in Alarm /\ now \in Int /\ Sound(a) /\ a.whenElapsed <= now
    BY <1>0, <1>8, <2>1 DEF TypeOK, ControlOK, TriggerTimersLocked, SoundInv, DueInv
  <2>3. UNCHANGED <<boot, readd, readdNow, pending, apc, lpc>>
    BY <1>8 DEF TriggerTimersLocked
  <2>4. \A c \in AlarmsOf(batches') : Sound(c)
    <3>1. CASE ~(a.interval > 0)
      BY <1>0, <2>1, <3>1
    <3>2. CASE a.interval > 0
      <4> DEFINE c == NextPeriod(a)
      <4>1. c \in Alarm /\ Sound(c)
        BY <1>0, <2>2, <3>2, NextPeriodType, SoundNextPeriod
      <4>2. SetHandlerLocked(c)
        BY <2>1, <3>2
      <4> HIDE DEF c
      <4>3. AlarmsOf(batches') = AlarmsOf(batches) \cup {c}
        BY <1>0, <4>1, <4>2, SetHandlerProperties
      <4> QED BY <1>0, <4>1, <4>3
    <3> QED BY <3>1, <3>2
  <2> QED BY <1>0, <2>1, <2>3, <2>4, SoundShrink
<1> QED
  BY <1>1, <1>2, <1>3, <1>4, <1>5, <1>6, <1>7, <1>8
  DEF Next, Client, ApiStep, LooperStep, Environment

\* A batch starts when one of its alarms is due.
LEMMA SoundStarts == TypeInv /\ SoundInv => AfterBoot
<1> SUFFICES ASSUME TypeInv, SoundInv, NEW i \in 1 .. Len(batches)
             PROVE  batches[i].start > 0
  BY DEF AfterBoot
<1>1. PICK a \in batches[i].alarms : a.whenElapsed = batches[i].start
  BY DEF TypeInv, AllWellFormed, WellFormed
<1>2. a \in AlarmsOf(batches)
  BY <1>1, InAlarmsOf
<1> QED BY <1>1, <1>2 DEF SoundInv, Sound

\* The condition of SleepingLooperIsArmed holds, and with it WakeupArmed, when
\* repeating timers follow the boot clock and are not clamped, within MIN_FUTURITY
\* of boot, by more than their interval.
THEOREM WakeupsAreNeverLost ==
    ASSUME PeriodsFollowBootClock
    PROVE  Spec /\ [][LateStart]_vars => []WakeupArmed
<1>1. Init => DueInv /\ SoundInv
  <2> SUFFICES ASSUME Init PROVE DueInv /\ SoundInv
    OBVIOUS
  <2>1. DueInv
    BY DEF Init, DueInv, NeverEarly
  <2>2. SoundInv
    BY AlarmsOfEmpty DEF Init, SoundInv
  <2> QED BY <2>1, <2>2
<1>2. TypeInv /\ DueInv /\ SoundInv /\ [Next]_vars /\ [LateStart]_vars => SoundInv'
  BY SoundStep
<1>3. Spec /\ [][LateStart]_vars => []AfterBoot
  BY <1>1, <1>2, TypeInit, TypeStep, DueStep, SoundStarts, PTL DEF Spec
<1> QED BY <1>3, SleepingLooperIsArmed, PTL
=============================================================================
