---------------------------- MODULE TimerManager ----------------------------
(***************************************************************************)
(* services/timer/src/timer_manager.cpp with the kernel timers it drives   *)
(* through timer_handler.cpp.                                              *)
(*                                                                         *)
(* Three kinds of threads meet here.  Binder threads run CreateTimer,      *)
(* StartTimer, StopTimer and DestroyTimer; entryMapMutex_ lets one of      *)
(* them in at a time, so they are one API thread with the program counter  *)
(* apc.  The looper thread (TimerLooper, program counter lpc) waits for    *)
(* the kernel and triggers.  ProxyTimer and ResetAllProxy run under        *)
(* proxyMutex_ alone and are atomic.  mutex is the owner of mutex_, which  *)
(* guards the batch list; loops that run while it is held are modelled     *)
(* one iteration per step, because the clocks move underneath them.        *)
(***************************************************************************)
EXTENDS Batch

CONSTANTS
    Ids,                \* the timer numbers random_() draws
    Uids, SystemUids,   \* callers, and those the bundle manager calls system apps
    Proxied,            \* the uids ProxyTimer is called for
    Profiles,           \* the parameters CreateTimer may be given
    Delays,             \* trigger time minus current time in a StartTimer call
    Offsets,            \* wall clock minus boot clock, as SetTime may leave it
    None,               \* no time, no timer
    Gone,               \* the entry of a destroyed timer
    MinFuturity,        \* MIN_FUTURITY
    MinIntervalSystem,  \* MIN_INTERVAL_ONE_SECONDS
    MinIntervalApp,     \* MIN_INTERVAL_FIVE_SECONDS
    MaxInterval,        \* MAX_INTERVAL
    HalfDay, Hour,      \* INTERVAL_HALF_DAY, INTERVAL_HOUR
    Tolerance,          \* ONE_THOUSAND, the drift that is not a time change
    Interrupts,         \* whether a signal may interrupt epoll_wait and read
    MaxTime,            \* bound: the boot clock stops here
    LastStart,          \* bound: no StartTimer after this time
    MaxAlarms           \* bound: StartTimer is called while fewer alarms were made

ASSUME ConstantsAssumption ==
    /\ SystemUids \subseteq Uids /\ Proxied \subseteq Uids
    /\ Profiles \subseteq [rtc : BOOLEAN, wakeup : BOOLEAN, window : Int,
                           interval : Nat, uid : Uids, standalone : BOOLEAN]
    /\ Delays \subseteq Int /\ Offsets \subseteq Int
    /\ None \notin Int /\ None \notin Profiles /\ None \notin Ids
    /\ Gone \notin Profiles
    /\ MinFuturity \in Nat
    /\ MinIntervalSystem \in Nat \ {0} /\ MinIntervalApp \in Nat \ {0}
    /\ MaxInterval \in Nat \ {0} /\ HalfDay \in Nat /\ Hour \in Nat
    /\ Tolerance \in Nat /\ Interrupts \in BOOLEAN
    /\ MaxTime \in Nat /\ LastStart \in Nat /\ MaxAlarms \in Nat

VARIABLES
    boot,         \* CLOCK_BOOTTIME
    rtcOff,       \* CLOCK_REALTIME minus CLOCK_BOOTTIME
    clockSet,     \* the TFD_TIMER_CANCEL_ON_SET descriptor is readable
    lag,          \* ghost: time between the two clock readings of the last pass that had a change
    fd,           \* expiry of the two descriptors the manager arms, or None
    entries,      \* timerEntryMap_: None before creation, Gone after erasure
    batches,      \* alarmBatches_
    lastOff,      \* lastTimeChangeClockTime_ - lastTimeChangeRealtime_, or None
    mutex,        \* the thread that holds mutex_
    apc, call,    \* the API call in progress
    pending,      \* the alarm StartTimer is about to insert
    readd,        \* oldSet of ReBatchAllTimersLocked: what is still to be re-added
    readdNow,     \* its nowElapsed
    lpc,          \* the looper
    ready,        \* events epoll_wait returned and not read yet
    result,       \* the bits WaitForAlarm has collected
    nowRtc, now,  \* nowRtc and nowElapsed
    popped,       \* alarms of the erased batch TriggerTimersLocked has yet to visit
    triggerList,  \* triggerList
    proxyUids,    \* proxyUids_
    proxyMap,     \* proxyMap_: {} for a uid without an entry
    made,         \* TimerInfo objects built so far
    started,      \* ghost: timers whose last completed call was StartTimer
    waiting,      \* ghost: started, and neither called back nor stopped since
    called        \* ghost: the alarms whose callback the last step ran

clockVars  == <<boot, rtcOff, clockSet, lag>>
callVars   == <<apc, call, pending>>
readdVars  == <<readd, readdNow>>
looperVars == <<lpc, ready, result, nowRtc, now, popped, triggerList>>
proxyVars  == <<proxyUids, proxyMap>>
ghostVars  == <<started, waiting, called>>
vars == <<clockVars, fd, entries, batches, lastOff, mutex, callVars, readdVars,
          looperVars, proxyVars, made, ghostVars>>

Fds == {"WAKE", "ELAPSED"}      \* CLOCK_BOOTTIME_ALARM and CLOCK_BOOTTIME
Events == Fds \cup {"CHANGED"}  \* TIME_CHANGED_MASK

Alarm == [ref : Nat, id : Ids, prof : Profiles, when : Int, whenElapsed : Int,
          maxWhenElapsed : Int, expected : Int, window : Int, interval : Nat]

BatchType == [start : Int, end : Int, standalone : BOOLEAN, alarms : SUBSET Alarm]

NoCall == [id |-> None, destroy |-> FALSE, pos |-> 1, did |-> FALSE]

-----------------------------------------------------------------------------
(* Helpers *)

\* GetBootTimeNs() + (when - clock now), in one reading of the clocks.
ConvertToElapsed(when, rtc) == IF rtc THEN when - rtcOff ELSE when

\* The bundle manager's answer; FALSE as well when it cannot be reached.
IsSystemUid(uid) == IF uid \in SystemUids THEN BOOLEAN ELSE {FALSE}

\* timerfd_settime with an absolute time: zero disarms, a negative one fails.
Set(old, when) == CASE when > 0 -> when [] when = 0 -> None [] OTHER -> old

\* The descriptors after RescheduleKernelTimerLocked on the given list: WAKE
\* follows the first batch with a wake-up alarm, ELAPSED the head of the list
\* when that is another batch.  A descriptor with nothing new keeps its expiry.
FindFirstWakeupBatchLocked(list) == {i \in 1 .. Len(list) :
    HasWakeups(list[i]) /\ \A j \in 1 .. i - 1 : ~HasWakeups(list[j])}

\* Mutant: the head of the list is armed only if it holds a wake-up alarm.
RescheduleWakeupsOnly(list) ==
    LET first == FindFirstWakeupBatchLocked(list)
    IN  [f \in Fds |->
            IF f = "WAKE" /\ first # {}
            THEN Set(fd[f], list[CHOOSE i \in first : TRUE].start)
            ELSE fd[f]]

RescheduleKernelTimerLocked(list) ==
    LET first == FindFirstWakeupBatchLocked(list)
    IN  [f \in Fds |->
            IF f = "WAKE" /\ first # {}
            THEN Set(fd[f], list[CHOOSE i \in first : TRUE].start)
            ELSE IF f = "ELAPSED" /\ list # <<>> /\ 1 \notin first
            THEN Set(fd[f], list[1].start)
            ELSE fd[f]]

Readable(f) == IF f = "CHANGED" THEN clockSet ELSE fd[f] # None /\ fd[f] <= boot

\* Mutant: the alarm is inserted and the kernel is not rearmed.
SetHandlerNoReschedule(a) ==
    \E list \in InsertAndBatchTimerLocked(batches, a) : batches' = list /\ UNCHANGED fd

\* SetHandlerLocked(alarm, rebatching = false): insert and rearm the kernel.
SetHandlerLocked(a) ==
    \E list \in InsertAndBatchTimerLocked(batches, a) :
        /\ batches' = list
        /\ fd' = RescheduleKernelTimerLocked(list)

IdsOf(S) == {a.id : a \in S}

\* Mutants: the entry stays; the function loses the key.
NotErased(map, uid) == map
KeyErased(map, uid) == [u \in DOMAIN map \ {uid} |-> map[u]]

\* proxyMap_.erase(uid)
Erased(map, uid) == [map EXCEPT ![uid] = {}]

\* Mutant: the proxy list is not consulted.
NeverProxied(a) == FALSE

\* The test of CallbackAlarmIfNeed.
IsProxied(a) == a.prof.uid \in proxyUids

-----------------------------------------------------------------------------
(* CreateTimer, StartTimer, StopTimer, DestroyTimer *)

CreateTimer(id, prof) ==
    /\ apc = "idle"
    /\ entries[id] = None
    /\ entries' = [entries EXCEPT ![id] = prof]
    /\ called' = {}
    /\ UNCHANGED <<clockVars, fd, batches, lastOff, mutex, callVars, readdVars,
                   looperVars, proxyVars, made, started, waiting>>

\* The alarm SetHandler builds before it asks for mutex_.
ClampWindow(window) == IF window > HalfDay THEN Hour ELSE window

ClampInterval(interval, min) ==
    IF interval > 0 /\ interval < min THEN min
    ELSE IF interval > MaxInterval THEN MaxInterval
    ELSE interval

NewAlarm(id, prof, when, sysInterval, sysFuturity) ==
    LET window   == ClampWindow(prof.window)
        interval == ClampInterval(prof.interval,
                        IF sysInterval THEN MinIntervalSystem ELSE MinIntervalApp)
        nominal  == ConvertToElapsed(when, prof.rtc)
        earliest == boot + (IF sysFuturity THEN 0 ELSE MinFuturity)
        trigger  == IF nominal > earliest THEN nominal ELSE earliest
        max      == IF window >= 0 THEN trigger + window
                    ELSE MaxTriggerTime(nominal, trigger, interval)
    IN  TimerInfo(made, id, prof, when, trigger, max - trigger, max, interval)

\* StartTimer up to the point where SetHandler waits for mutex_.  A trigger
\* time in the past makes SetHandler return early, and StartTimer says true.
StartTimer(id, delay) ==
    /\ apc = "idle"
    /\ entries[id] \in Profiles
    /\ made < MaxAlarms /\ boot <= LastStart
    /\ LET prof == entries[id]
           when == delay + boot + (IF prof.rtc THEN rtcOff ELSE 0)
       IN  IF ConvertToElapsed(when, prof.rtc) < boot
           THEN UNCHANGED <<apc, pending, made>>
           ELSE \E si, sf \in IsSystemUid(prof.uid) :
                    /\ pending' = {NewAlarm(id, prof, when, si, sf)}
                    /\ apc' = "commit"
                    /\ made' = made + 1
    /\ started' = started \cup {id}
    /\ waiting' = waiting \cup {id}
    /\ called' = {}
    /\ UNCHANGED <<clockVars, fd, entries, batches, lastOff, mutex, call,
                   readdVars, looperVars, proxyVars>>

\* The rest of StartTimer, once mutex_ is free.
CommitTimer ==
    /\ apc = "commit" /\ mutex = "none"
    /\ \E a \in pending : SetHandlerLocked(a)
    /\ pending' = {}
    /\ apc' = "idle"
    /\ called' = {}
    /\ UNCHANGED <<clockVars, entries, lastOff, mutex, call, readdVars,
                   looperVars, proxyVars, made, started, waiting>>

\* StopTimer and DestroyTimer: RemoveHandler takes mutex_.
StopTimerInner(id, needDestroy) ==
    /\ apc = "idle" /\ mutex = "none"
    /\ entries[id] \in Profiles
    /\ apc' = "remove"
    /\ mutex' = "api"
    /\ call' = [id |-> id, destroy |-> needDestroy, pos |-> 1, did |-> FALSE]
    /\ waiting' = waiting \ {id}
    /\ called' = {}
    /\ UNCHANGED <<clockVars, fd, entries, batches, lastOff, pending, readdVars,
                   looperVars, proxyVars, made, started>>

\* One turn of the loop of RemoveLocked.  didRemove is assigned, not
\* accumulated: at the end it speaks of the last batch only.
RemoveLocked ==
    /\ apc = "remove" /\ call.pos <= Len(batches)
    /\ LET b    == batches[call.pos]
           kept == BatchRemove(b, call.id)
           did  == kept.alarms # b.alarms
       IN  IF kept.alarms = {}
           THEN /\ batches' = RemoveAt(batches, call.pos)
                /\ call' = [call EXCEPT !.did = did]
           ELSE /\ batches' = [batches EXCEPT ![call.pos] = kept]
                /\ call' = [call EXCEPT !.did = did, !.pos = @ + 1]
    /\ called' = {}
    /\ UNCHANGED <<clockVars, fd, entries, lastOff, mutex, apc, pending,
                   readdVars, looperVars, proxyVars, made, started, waiting>>

\* ReBatchAllTimersLocked up to its loop.
BeginReBatch ==
    /\ readd' = batches
    /\ readdNow' = boot
    /\ batches' = <<>>

\* The end of RemoveLocked: rebatch, or release mutex_ as things are.
RemoveDone ==
    /\ apc = "remove" /\ call.pos > Len(batches)
    /\ IF call.did
       THEN BeginReBatch /\ apc' = "rebatch" /\ UNCHANGED mutex
       ELSE apc' = "unproxy" /\ mutex' = "none" /\ UNCHANGED <<batches, readdVars>>
    /\ started' = started \ {call.id}
    /\ called' = {}
    /\ UNCHANGED <<clockVars, fd, entries, lastOff, call, pending, looperVars,
                   proxyVars, made, waiting>>

\* Mutant: the uid is erased with whatever is held for it.
RemoveProxyOfUid ==
    /\ apc = "unproxy"
    /\ proxyMap' = Erased(proxyMap, entries[call.id].uid)
    /\ entries' = IF call.destroy THEN [entries EXCEPT ![call.id] = Gone] ELSE entries
    /\ apc' = "idle"
    /\ call' = NoCall
    /\ called' = {}
    /\ UNCHANGED <<clockVars, fd, batches, lastOff, mutex, pending, readdVars,
                   looperVars, proxyUids, made, started, waiting>>

\* RemoveProxy works on a copy of the vector, so the only effect it can have
\* is to erase the uid when every alarm held for it belongs to the timer;
\* then a destroyed timer leaves timerEntryMap_ and entryMapMutex_ is released.
RemoveProxy ==
    /\ apc = "unproxy"
    /\ LET uid == entries[call.id].uid
       IN  proxyMap' = IF IdsOf(proxyMap[uid]) \subseteq {call.id}
                       THEN Erased(proxyMap, uid)
                       ELSE proxyMap
    /\ entries' = IF call.destroy THEN [entries EXCEPT ![call.id] = Gone] ELSE entries
    /\ apc' = "idle"
    /\ call' = NoCall
    /\ called' = {}
    /\ UNCHANGED <<clockVars, fd, batches, lastOff, mutex, pending, readdVars,
                   looperVars, proxyUids, made, started, waiting>>

-----------------------------------------------------------------------------
(* ReBatchAllTimersLocked: the holder of mutex_ re-adds one alarm per step *)

\* What remains of oldSet after one alarm of its first batch.
DropFirst(list, a) ==
    IF list[1].alarms = {a} THEN Tail(list)
    ELSE [list EXCEPT ![1].alarms = @ \ {a}]

Recomputed(a) ==
    LET whenElapsed == ConvertToElapsed(a.when, a.prof.rtc)
    IN  [a EXCEPT !.whenElapsed = whenElapsed,
                  !.maxWhenElapsed = IF a.window >= 0 THEN whenElapsed + a.window
                                     ELSE MaxTriggerTime(readdNow, whenElapsed, a.interval)]

\* An alarm whose time has passed is not added again.
ReAddTimerLocked ==
    /\ apc = "rebatch" \/ lpc = "rebatch"
    /\ readd # <<>>
    /\ \E a \in NextOf(readd[1].alarms) :
          /\ readd' = DropFirst(readd, a)
          /\ IF ConvertToElapsed(a.when, a.prof.rtc) < readdNow
             THEN UNCHANGED batches
             ELSE batches' \in InsertAndBatchTimerLocked(batches, Recomputed(a))
    /\ called' = {}
    /\ UNCHANGED <<clockVars, fd, entries, lastOff, mutex, callVars, readdNow,
                   looperVars, proxyVars, made, started, waiting>>

\* The end of the loop on either thread; mutex_ is released right after.
ReBatchDone ==
    /\ readd = <<>>
    /\ \/ apc = "rebatch" /\ apc' = "unproxy" /\ UNCHANGED lpc
       \/ lpc = "rebatch" /\ lpc' = "trigger" /\ UNCHANGED apc
    /\ fd' = RescheduleKernelTimerLocked(batches)
    /\ mutex' = "none"
    /\ readdNow' = None
    /\ called' = {}
    /\ UNCHANGED <<clockVars, entries, batches, lastOff, call, pending, readd,
                   ready, result, nowRtc, now, popped, triggerList, proxyVars,
                   made, started, waiting>>

-----------------------------------------------------------------------------
(* TimerLooper *)

\* epoll_wait in WaitForAlarm returns every readable descriptor.
EpollWait ==
    /\ lpc = "wait"
    /\ ready' = {f \in Events : Readable(f)}
    /\ ready' # {}
    /\ lpc' = "read"
    /\ called' = {}
    /\ UNCHANGED <<clockVars, fd, entries, batches, lastOff, mutex, callVars,
                   readdVars, result, nowRtc, now, popped, triggerList,
                   proxyVars, made, started, waiting>>

\* epoll_wait or read fails: -1 is kept in an unsigned variable, the retry on
\* EINTR never happens, and every bit of the result is set.
Interrupted ==
    /\ Interrupts
    /\ lpc = "wait" \/ (lpc = "read" /\ ready # {})
    /\ ready' = {}
    /\ result' = Events
    /\ lpc' = "read"
    /\ called' = {}
    /\ UNCHANGED <<clockVars, fd, entries, batches, lastOff, mutex, callVars,
                   readdVars, nowRtc, now, popped, triggerList, proxyVars,
                   made, started, waiting>>

\* read() on a descriptor epoll_wait reported.  The descriptors block: if the
\* API thread has rearmed one to a later time in between, the looper waits
\* here for that time.
ReadFd(f) ==
    /\ lpc = "read"
    /\ f \in ready /\ Readable(f)
    /\ ready' = ready \ {f}
    /\ result' = result \cup {f}
    /\ IF f = "CHANGED"
       THEN clockSet' = FALSE /\ UNCHANGED fd
       ELSE fd' = [fd EXCEPT ![f] = None] /\ UNCHANGED clockSet
    /\ called' = {}
    /\ UNCHANGED <<boot, rtcOff, lag, entries, batches, lastOff, mutex, callVars,
                   readdVars, lpc, nowRtc, now, popped, triggerList, proxyVars,
                   made, started, waiting>>

\* WaitForAlarm has returned: nowRtc is read first,
SampleRtc ==
    /\ lpc = "read" /\ ready = {}
    /\ nowRtc' = boot + rtcOff
    /\ lag' = IF "CHANGED" \in result THEN 0 ELSE lag
    /\ lpc' = "sampled"
    /\ called' = {}
    /\ UNCHANGED <<boot, rtcOff, clockSet, fd, entries, batches, lastOff, mutex, callVars,
                   readdVars, ready, result, now, popped, triggerList, proxyVars,
                   made, started, waiting>>

\* and nowElapsed after it.  Only a change of the clock looks at nowRtc.
SampleElapsed ==
    /\ lpc = "sampled"
    /\ now' = boot
    /\ IF "CHANGED" \in result
       THEN lpc' = "changed" /\ UNCHANGED nowRtc
       ELSE lpc' = "trigger" /\ nowRtc' = None
    /\ called' = {}
    /\ UNCHANGED <<clockVars, fd, entries, batches, lastOff, mutex, callVars,
                   readdVars, ready, result, popped, triggerList, proxyVars,
                   made, started, waiting>>

\* The offset between the clocks as the looper has read them.
OffsetRead == nowRtc - now

\* Mutant: only a clock that jumped forward counts.
ClockMovedForward == lastOff = None \/ OffsetRead - lastOff > Tolerance

\* nowRtc is not within the tolerance of what the boot clock predicts.
ClockMoved == lastOff = None \/ OffsetRead - lastOff \notin (-Tolerance) .. Tolerance

TimeChanged ==
    /\ lpc = "changed" /\ mutex = "none"
    /\ IF ClockMoved
       THEN /\ BeginReBatch
            /\ lastOff' = OffsetRead
            /\ mutex' = "looper"
            /\ lpc' = "rebatch"
       ELSE /\ lpc' = "trigger"
            /\ UNCHANGED <<batches, readdVars, lastOff, mutex>>
    /\ nowRtc' = None
    /\ called' = {}
    /\ UNCHANGED <<clockVars, fd, entries, callVars, ready, result, now, popped,
                    triggerList, proxyVars, made, started, waiting>>

\* The second critical section: a time change alone only rearms the kernel.
BeginTrigger ==
    /\ lpc = "trigger" /\ mutex = "none"
    /\ IF result = {"CHANGED"}
       THEN /\ fd' = RescheduleKernelTimerLocked(batches)
            /\ lpc' = "wait" /\ result' = {} /\ now' = None
            /\ UNCHANGED mutex
       ELSE /\ mutex' = "looper"
            /\ lpc' = "pop"
            /\ UNCHANGED <<fd, result, now>>
    /\ called' = {}
    /\ UNCHANGED <<clockVars, entries, batches, lastOff, callVars, readdVars,
                   ready, nowRtc, popped, triggerList, proxyVars, made, started, waiting>>

HeadIsDue == batches # <<>> /\ batches[1].start <= now

\* TriggerTimersLocked erases the first batch, or is done.
PopBatch ==
    /\ lpc = "pop" /\ popped = {}
    /\ IF HeadIsDue
       THEN batches' = Tail(batches) /\ popped' = batches[1].alarms /\ UNCHANGED lpc
       ELSE lpc' = "deliver" /\ UNCHANGED <<batches, popped>>
    /\ called' = {}
    /\ UNCHANGED <<clockVars, fd, entries, lastOff, mutex, callVars, readdVars,
                   ready, result, nowRtc, now, triggerList, proxyVars, made,
                   started, waiting>>

\* Mutant: one period at a time.
NextPeriodNoCatchUp(a) ==
    LET next == a.whenElapsed + a.interval
    IN  TimerInfo(made, a.id, a.prof, a.when + a.interval, next, a.window,
                  MaxTriggerTime(now, next, a.interval), a.interval)

\* Mutant: the object that has just been triggered is queued again.
NextPeriodSameObject(a) ==
    LET delta == (1 + TruncDiv(now - a.expected, a.interval)) * a.interval
    IN  [a EXCEPT !.when = @ + delta, !.whenElapsed = @ + delta]

\* The periods that have passed, and the alarm for the next one.
NextPeriod(a) ==
    LET delta == (1 + TruncDiv(now - a.expected, a.interval)) * a.interval
        next  == a.whenElapsed + delta
    IN  TimerInfo(made, a.id, a.prof, a.when + delta, next, a.window,
                  MaxTriggerTime(now, next, a.interval), a.interval)

\* One turn of the inner loop of TriggerTimersLocked.
TriggerTimersLocked ==
    /\ lpc = "pop"
    /\ \E a \in NextOf(popped) :
          /\ popped' = popped \ {a}
          /\ triggerList' = triggerList \cup {a}
          /\ IF a.interval > 0
             THEN SetHandlerLocked(NextPeriod(a)) /\ made' = made + 1
             ELSE UNCHANGED <<batches, fd, made>>
    /\ called' = {}
    /\ UNCHANGED <<clockVars, entries, lastOff, mutex, callVars, readdVars, lpc,
                   ready, result, nowRtc, now, proxyVars, started, waiting>>

\* One turn of DeliverTimersLocked, in the order std::sort left: the callback
\* runs unless CallbackAlarmIfNeed finds the uid proxied and keeps the alarm.
DeliverTimersLocked ==
    /\ lpc = "deliver"
    /\ \E a \in NextOf(triggerList) :
          /\ triggerList' = triggerList \ {a}
          /\ IF IsProxied(a)
             THEN /\ proxyMap' = [proxyMap EXCEPT ![a.prof.uid] = @ \cup {a}]
                  /\ called' = {}
                  /\ UNCHANGED waiting
             ELSE /\ called' = {a}
                  /\ waiting' = waiting \ {a.id}
                  /\ UNCHANGED proxyMap
    /\ UNCHANGED <<clockVars, fd, entries, batches, lastOff, mutex, callVars,
                   readdVars, lpc, ready, result, nowRtc, now, popped,
                   proxyUids, made, started>>

\* Everything is delivered: rearm the kernel, release mutex_, wait again.
DeliverDone ==
    /\ lpc = "deliver" /\ triggerList = {}
    /\ fd' = RescheduleKernelTimerLocked(batches)
    /\ mutex' = "none"
    /\ lpc' = "wait" /\ result' = {} /\ now' = None
    /\ called' = {}
    /\ UNCHANGED <<clockVars, entries, batches, lastOff, callVars, readdVars,
                   ready, nowRtc, popped, triggerList, proxyVars, made, started, waiting>>

-----------------------------------------------------------------------------
(* ProxyTimer and ResetAllProxy *)

ProxyTimerOn(uid) ==
    /\ proxyUids' = proxyUids \cup {uid}
    /\ called' = {}
    /\ UNCHANGED <<clockVars, fd, entries, batches, lastOff, mutex, callVars,
                   readdVars, looperVars, proxyMap, made, started, waiting>>

\* For a uid that is not proxied the call fails and changes nothing.
ProxyTimerOff(uid, needRetrigger) ==
    /\ uid \in proxyUids
    /\ proxyUids' = proxyUids \ {uid}
    /\ proxyMap' = Erased(proxyMap, uid)
    /\ called' = IF needRetrigger THEN proxyMap[uid] ELSE {}
    /\ waiting' = waiting \ IdsOf(proxyMap[uid])
    /\ UNCHANGED <<clockVars, fd, entries, batches, lastOff, mutex, callVars,
                   readdVars, looperVars, made, started>>

ResetAllProxy ==
    /\ proxyUids' = {}
    /\ proxyMap' = [u \in Uids |-> {}]
    /\ called' = UNION {proxyMap[u] : u \in Uids}
    /\ waiting' = waiting \ IdsOf(called')
    /\ UNCHANGED <<clockVars, fd, entries, batches, lastOff, mutex, callVars,
                   readdVars, looperVars, made, started>>

-----------------------------------------------------------------------------
(* The clocks *)

Tick ==
    /\ boot < MaxTime
    /\ boot' = boot + 1
    /\ lag' = IF lpc = "sampled" /\ "CHANGED" \in result THEN lag + 1 ELSE lag
    /\ called' = {}
    /\ UNCHANGED <<rtcOff, clockSet, fd, entries, batches, lastOff, mutex,
                   callVars, readdVars, looperVars, proxyVars, made, started,
                   waiting>>

\* settimeofday: the wall clock jumps and cancels the CHANGED descriptor.
SetTime(off) ==
    /\ off # rtcOff
    /\ rtcOff' = off
    /\ clockSet' = TRUE
    /\ called' = {}
    /\ UNCHANGED <<boot, lag, fd, entries, batches, lastOff, mutex, callVars,
                   readdVars, looperVars, proxyVars, made, started, waiting>>

-----------------------------------------------------------------------------
Init ==
    /\ boot = 1 /\ rtcOff \in Offsets /\ clockSet = FALSE /\ lag = 0
    /\ fd = [f \in Fds |-> None]
    /\ entries = [id \in Ids |-> None]
    /\ batches = <<>>
    /\ lastOff = None
    /\ mutex = "none"
    /\ apc = "idle" /\ call = NoCall /\ pending = {}
    /\ readd = <<>> /\ readdNow = None
    /\ lpc = "wait" /\ ready = {} /\ result = {}
    /\ nowRtc = None /\ now = None /\ popped = {} /\ triggerList = {}
    /\ proxyUids = {} /\ proxyMap = [u \in Uids |-> {}]
    /\ made = 0
    /\ started = {} /\ waiting = {} /\ called = {}

Client ==
    \E id \in Ids :
        \/ \E prof \in Profiles : CreateTimer(id, prof)
        \/ \E delay \in Delays : StartTimer(id, delay)
        \/ \E needDestroy \in BOOLEAN : StopTimerInner(id, needDestroy)

\* The API thread inside a call.
ApiStep ==
    \/ CommitTimer
    \/ RemoveLocked
    \/ RemoveDone
    \/ RemoveProxy
    \/ (apc = "rebatch" /\ (ReAddTimerLocked \/ ReBatchDone))

\* The looper thread.
LooperStep ==
    \/ EpollWait
    \/ \E f \in Events : ReadFd(f)
    \/ SampleRtc
    \/ SampleElapsed
    \/ TimeChanged
    \/ (lpc = "rebatch" /\ (ReAddTimerLocked \/ ReBatchDone))
    \/ BeginTrigger
    \/ PopBatch
    \/ TriggerTimersLocked
    \/ DeliverTimersLocked
    \/ DeliverDone

Proxy ==
    \/ \E uid \in Proxied : ProxyTimerOn(uid)
    \/ \E uid \in Proxied, needRetrigger \in BOOLEAN : ProxyTimerOff(uid, needRetrigger)
    \/ ResetAllProxy

Environment == Tick \/ Interrupted \/ \E off \in Offsets : SetTime(off)

Next == Client \/ ApiStep \/ LooperStep \/ Proxy \/ Environment

Spec == Init /\ [][Next]_vars

\* The looper and a call in progress are scheduled and get mutex_ in the end;
\* time passes.  Clients, signals and clock changes owe nothing.
Fairness ==
    /\ SF_vars(ApiStep)
    /\ SF_vars(LooperStep)
    /\ WF_vars(Tick)

FairSpec == Spec /\ Fairness

-----------------------------------------------------------------------------
(* Properties *)

TypeOK ==
    /\ boot \in Nat /\ rtcOff \in Int /\ clockSet \in BOOLEAN /\ lag \in Nat
    /\ fd \in [Fds -> Int \cup {None}]
    /\ entries \in [Ids -> Profiles \cup {None, Gone}]
    /\ batches \in Seq(BatchType)
    /\ lastOff \in Int \cup {None}
    /\ mutex \in {"none", "api", "looper"}
    /\ apc \in {"idle", "commit", "remove", "rebatch", "unproxy"}
    /\ call \in [id : Ids \cup {None}, destroy : BOOLEAN, pos : Nat, did : BOOLEAN]
    /\ pending \in SUBSET Alarm
    /\ readd \in Seq(BatchType)
    /\ readdNow \in Int \cup {None}
    /\ lpc \in {"wait", "read", "sampled", "changed", "rebatch", "trigger", "pop", "deliver"}
    /\ ready \in SUBSET Events /\ result \in SUBSET Events
    /\ nowRtc \in Int \cup {None} /\ now \in Int \cup {None}
    /\ popped \in SUBSET Alarm /\ triggerList \in SUBSET Alarm
    /\ proxyUids \in SUBSET Uids
    /\ proxyMap \in [Uids -> SUBSET Alarm]
    /\ made \in Nat
    /\ started \in SUBSET Ids /\ waiting \in SUBSET Ids
    /\ called \in SUBSET Alarm

\* Alarms on their way to the looper's trigger list, and those held by a proxy.
Queued == AlarmsOf(batches) \cup AlarmsOf(readd) \cup pending \cup popped \cup triggerList
Held == UNION {proxyMap[u] : u \in Uids}

\* A timer that was stopped or destroyed has no alarm left anywhere between
\* StartTimer and the trigger list, whatever the looper was doing when
\* StopTimerInner came in.
QueuedIsStarted ==
    /\ IdsOf(Queued) \subseteq started
    /\ \A id \in started : entries[id] \in Profiles

\* The summary a batch keeps (start_, end_, flags_) agrees with its alarms
\* through Add, Remove and rebatching, and no empty batch stays in the list.
BatchSummary ==
    \A i \in 1 .. Len(batches) :
        LET b == batches[i]
        IN  /\ b.alarms # {}
            /\ b.start = LatestWhen(b.alarms)
            /\ b.end = EarliestMax(b.alarms)
            /\ b.standalone = \E a \in b.alarms : a.prof.standalone

\* No callback runs before the elapsed time its alarm was scheduled for, on
\* the looper or when a proxy is lifted.
NeverEarly == \A a \in called : a.whenElapsed <= boot

\* A callback runs once: an alarm that was called back is in no list any more.
CalledOnce == {a.ref : a \in called} \cap {a.ref : a \in Queued \cup Held} = {}

\* While a uid is proxied none of its callbacks run, and alarms are held for
\* proxied uids only, so that lifting the proxy reaches all of them.
ProxyHolds ==
    /\ \A a \in called : a.prof.uid \notin proxyUids
    /\ \A u \in Uids : proxyMap[u] # {} => u \in proxyUids

\* The wake-up is never lost: when the looper sleeps and the list is not
\* empty, a descriptor is armed, and it is the one that wakes the device as
\* soon as a wake-up alarm is in the list.
WakeupArmed ==
    lpc = "wait" /\ mutex = "none" /\ batches # <<>> =>
        /\ \E f \in Fds : fd[f] # None
        /\ FindFirstWakeupBatchLocked(batches) # {} => fd["WAKE"] # None

\* TimerLooper: after the looper has digested a clock change, the offset it
\* rebatched for is the real one within the tolerance and, on one side, the time
\* that passed between its readings of nowRtc and nowElapsed; whatever the clock
\* was set to while it read, rebatched or triggered.
ClockDriftBounded ==
    lpc = "wait" /\ ~clockSet /\ lastOff # None =>
        rtcOff - lastOff \in (-Tolerance) .. (Tolerance + lag)

\* The periods a repeating timer missed collapse into one callback: one pass
\* of the looper triggers a timer that was started once at most once.
OneCallbackPerPass ==
    \A a, b \in popped \cup triggerList : a.id = b.id => a.ref = b.ref

\* ReBatchAllTimersLocked, RemoveLocked, RemoveProxy, TriggerTimersLocked,
\* DeliverTimersLocked: a started timer that was neither called back nor stopped
\* keeps an alarm in the queue or with a proxy through every step, whatever is
\* stopped, coalesced, triggered or lifted around it, except when a rebatch leaves
\* its alarm out because its time has passed.
OnlyReBatchLoses ==
    [][\A id \in waiting \cap waiting' :
           id \in IdsOf(Queued \cup Held) /\ id \notin IdsOf(Queued \cup Held)' =>
               \E a \in AlarmsOf(readd) :
                   a.id = id /\ ConvertToElapsed(a.when, a.prof.rtc) < readdNow]_vars

\* StopTimerInner, DeliverTimersLocked, ProxyTimer: a callback of a timer that is
\* not started (stopped, destroyed) is one a proxy held; whatever the looper, a
\* rebatch or another call was doing when the stop came in, it calls back nothing
\* of the timer any more.
StoppedFireFromProxies == [][\A a \in called' : a.id \in started \/ a \in Held]_vars

\* An alarm that is due leaves the queue: it is triggered or dropped.
DueIsServed == \A id \in Ids : id \in IdsOf(Queued) ~> id \notin IdsOf(Queued)

-----------------------------------------------------------------------------
(* Claims of the documentation that the code does not keep *)

\* The batch of an exact alarm (window zero) starts before its window has closed.
BatchWithinWindow ==
    \A i \in 1 .. Len(batches) : \A a \in batches[i].alarms :
        a.window = 0 => batches[i].start <= a.maxWhenElapsed

\* Once StopTimer or DestroyTimer has returned, the callback of the timer does not
\* run until it is started again.
StoppedStaysSilent == IdsOf(called) \subseteq started \cup {call.id}

\* A wall-clock timer stays aligned with the wall clock: once a clock change
\* is digested and no call is in progress, its elapsed time is the one the
\* current offset gives (the timers here are not clamped).
WallClockAligned ==
    lpc = "wait" /\ ~clockSet /\ apc = "idle" =>
        \A a \in AlarmsOf(batches) : a.prof.rtc =>
            a.whenElapsed - ConvertToElapsed(a.when, TRUE) \in (-Tolerance) .. Tolerance

\* A timer that StartTimer accepted is queued or held until it is called back.
StartedNotLost == waiting \subseteq IdsOf(Queued \cup Held)
=============================================================================
