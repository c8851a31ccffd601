# TLA+ models of the OpenHarmony time service

The repository implements the system ability that sets the clock and the time
zone of a device, keeps the clock in step with the network, and offers timers to
applications. This directory models it in TLA+: the timer manager, the network
time update, the ability that holds the service together, and the client with
its JavaScript bindings. TLC checks the models on small instances, and TLAPS
proves the main invariants for every value of the constants.

Contents: [the system](#the-system), [plan](#plan), [modules](#modules),
[runs](#runs), [proofs](#proofs), [what the code does that its documentation
does not say](#observations), [limits](#limits).

## The system

### Components

| Component | Source | State | Operations |
|---|---|---|---|
| alarm batches | `services/timer/src/batch.cpp`, `timer_info.cpp` | per batch: alarms, `start_`, `end_`, `flags_` | `CanHold`, `Add`, `Remove`, `HasWakeups` |
| timer manager | `services/timer/src/timer_manager.cpp` | `timerEntryMap_`, `alarmBatches_`, `proxyUids_`, `proxyMap_`, last clock change | create, start, stop, destroy, proxy, reset proxies; the looper |
| kernel timers | `services/timer/src/timer_handler.cpp` | timerfd descriptors, epoll | `Set`, `WaitForAlarm` |
| network time update | `services/time_manager/src/ntp_update_time.cpp` | `autoTimeInfo_`, its file, the NITZ time, the daily timer | `Init`, on, off, `SetSystemTime`, NITZ, monitoring thread |
| SNTP client, trusted time | `sntp_client.cpp`, `ntp_trusted_time.cpp` | the exchange; the cached answer | `RequestTime`, `ForceRefresh`, `CurrentTimeMillis` |
| network and NITZ events | `net_conn_callback_observer.cpp`, `nitz_subscriber.cpp` | none | event handlers |
| service ability | `time_service.cpp` | running state, timer manager pointer, RTC device | the public calls, start and stop |
| time zone | `time_zone_info.cpp` | zone in memory, in the file, in the process | `SetTimezone`, `Init` |
| minute tick, change events | `time_tick_notify.cpp`, `time_service_notify.cpp` | the tick timer | `Callback`, publishing |
| native client | `time_service_client.cpp`, `timer_call_back*.cpp` | service proxy, table of callbacks | the public calls, `NotifyTimer`, reconnect |
| IPC marshalling | `time_service_proxy.cpp`, `time_service_stub.cpp` | none | one function per call |
| JavaScript bindings | `interfaces/kits/js/napi` | table of timers | conversions, promises and callbacks |
| diagnostics, utilities | `services/dfx`, `utils` | table of dump commands | dump, events, files, permissions |

### How they interact

A client calls over binder; the stub runs the call on one of the service's binder
threads. The timer calls enter the timer manager under `entryMapMutex_` and change
the batch list under `mutex_`. A looper thread sleeps in `epoll_wait` on timerfd
descriptors that the calls and the looper itself arm; when one fires it takes
`mutex_`, moves the due alarms to a trigger list, queues the next period of
repeating ones, and runs the callbacks, each a synchronous call to the client.
A uid may be *proxied*: its due alarms are then held in `proxyMap_` and run, or
are thrown away, when the proxy is lifted. A descriptor that the kernel cancels
when the wall clock is set tells the looper to compute all alarms again.

The network time update is started by three kinds of threads: the binder thread
of `NetworkTimeStatusOn`, the network observer's, and the looper (a daily timer).
It asks an SNTP server, caches the answer, sets the clock through
`TimeService::SetTime` and saves its settings. It has no locks.

### What is hard, and what makes each part correct

- *Batches*: the summary of a batch must stay that of its alarms through add,
  remove and rebatching, else alarms run early or late.
- *Timer manager*: calls, looper, proxy calls and clock changes interleave at
  lock boundaries. Alarms must not run early, twice, after their timer was
  stopped, or while proxied; none may be forgotten; the looper must never sleep
  without a descriptor armed; wall-clock alarms must follow the wall clock.
- *Network time*: unsynchronised threads share the cached answer, the settings,
  the file and the clock, while requests fail and the process may crash. An
  update must leave the clock right to within the error of the exchange, and the
  settings must survive.
- *Client and callbacks*: calls go both ways and are synchronous, with locks held
  on either side: nobody may wait for somebody who waits for them. The client's
  table and the service's timers are changed one after the other, so a trigger
  may meet a timer that is being destroyed, and the service may die at any point.
- *Service, time zone, tick*: several copies of one value (process, file, memory;
  wall clock, hardware clock, announcement) are updated in order, with failures
  and crashes in between, by threads that share no lock; a timer registers itself
  again while the clock is set; the timer manager is created on first use.

`PROJECT.json` lists these hazards at their lines with the properties that cover
them.

## Plan

Done:

1. `Batch`: the data structure, as operators; lemmas in `BatchProofs`.
2. `TimerManager`: the timer manager over `Batch` and the kernel timers; type
   invariant, safety, liveness; proofs in `TimerManagerTypes`, `TimerManagerProofs`.
3. `NtpUpdateTime`: the update with its exchange and settings; proofs in
   `NtpUpdateTimeProofs`.
4. `TimerContract`: what a timer manager promises, and `TimerImplements`, the
   refinement mapping that forgets batches, descriptors, proxies and threads;
   proofs in `TimerContractProofs`.
5. `TimeService`: life cycle, clock, time zone, lazy timer manager, minute tick;
   proofs in `TimeServiceProofs`.
6. `TimerClient` and, on top of it, `SystemTimer`: the client, the two directions
   of calls, and the JavaScript bindings; proofs in `TimerClientProofs`.
7. Proofs of the remaining invariants and of the refinement:
   `TimerContractProofs`, `TimerWakeupProofs`.
8. `NtpStamp`: the conversion of stamps, which `NtpUpdateTime` uses; the action
   properties of the timer manager and of the NITZ time; the life of a native
   application; their proofs.

Open: a composition of `TimerManager` with `NtpUpdateTime`, whose daily exchange runs
on the looper; a proof of `WakeupArmed` without its two conditions on repeating
timers; the decoding of timer types from flags.

## Modules

### `Batch`

A batch is a record of `start`, `end`, `standalone` and a set of alarms; the list
is a sequence. The order of alarms inside a batch is kept in the code and used
for nothing but the order of callbacks of equal time. `BatchAdd`, `BatchRemove`,
`CanHold` and `HasWakeups` are the methods of `Batch`; `UpperBound` and
`AddBatchLocked` are the sorted insertion; `AttemptCoalesceLocked` returns the
batches the loop may return, and `InsertAndBatchTimerLocked` the possible lists.

### `TimerManager`

| Variables | Code |
|---|---|
| `boot`, `rtcOff`, `clockSet` | the clocks; the wall clock is `boot + rtcOff` |
| `fd` | expiry of `CLOCK_BOOTTIME_ALARM` and `CLOCK_BOOTTIME` descriptors |
| `entries`, `batches`, `lastOff` | `timerEntryMap_`, `alarmBatches_`, the two last-change times |
| `mutex`, `apc`, `call`, `pending` | owner of `mutex_`; the API call in progress |
| `readd`, `readdNow` | `oldSet` and `nowElapsed` of `ReBatchAllTimersLocked` |
| `lpc`, `ready`, `result`, `nowRtc`, `now`, `popped`, `triggerList` | locals of the looper |
| `proxyUids`, `proxyMap` | the proxies and the alarms they hold |
| `started`, `waiting`, `called`, `lag` | ghosts for the properties; `lag` is the time between `nowRtc` and `nowElapsed` when a clock change was looked at |

An operation is split where another thread can see the difference: at each
lock, at each reading of a clock, and at each turn of a loop during which time
may pass. `StartTimer` computes (`NewAlarm`) and `CommitTimer` inserts under
`mutex_`. `StopTimerInner` starts a stop, `RemoveLocked` and `RemoveDone` walk
the batches, `BeginReBatch`, `ReAddTimerLocked` and `ReBatchDone` rebatch, and
`RemoveProxy` ends it. The looper goes through `EpollWait`, `ReadFd`,
`SampleRtc`, `SampleElapsed`, `TimeChanged` and the rebatch, `BeginTrigger`, `PopBatch`,
`TriggerTimersLocked`, `DeliverTimersLocked` and `DeliverDone`. `entryMapMutex_`
admits one API call at a time, so one program counter is enough for all binder
threads; `proxyMutex_` is held for single steps only. `Interrupted` is a signal:
`WaitForAlarm` then returns an error that the looper reads as all bits set.
`ConvertToElapsed` reads both clocks too (`timer_manager.cpp:362`, `:365`); there the two
readings are one step, a simplification: a call that is held up between them gives its
own alarm a time that is off by the delay.

A callback is one step, in which the alarm appears in `called`. Its duration
shows as `Tick`s between steps of delivery; `TimerClient` models what it waits for.

### `TimerContract`, `TimerImplements`

The contract knows the timers that exist, a pool of numbered alarms, and what the
last step called back. An alarm enters the pool by a start of a timer that exists
or as the next period of an alarm in it; it leaves by being called back, or by
being dropped (stop, destroy, a proxy lifted without its alarms, an alarm that a
rebatch leaves out). Numbers are never used again, so nothing called back or
dropped returns. The mapping takes for the pool every alarm on the way from
`StartTimer` to its callback: the pending insertion, the batches, the rebatch, the
popped and triggered ones, and those held by proxies. An alarm that is in two of
these places at once breaks it when the first copy is called back.

The contract says nothing of *when* an alarm may be dropped; `lost` and `stopped`
are about that.

### `NtpUpdateTime`

| Variables | Code |
|---|---|
| `boot`, `err` | `steady_clock`; wall clock minus UTC |
| `info`, `file` | `autoTimeInfo_` and the settings file |
| `nitz`, `cache`, `next` | the NITZ time, `mTimeResult`, the daily timer |
| `monitor`, `retryCount` | the thread that registers the network observer |
| `pc`, `op`, `loc` | the threads and their local variables |
| `bound`, `lost`, `raced`, and `sent`, `at`, `slack` in `loc` | ghosts |

Every access to shared state is a step of its own. The server is honest and answers
at the moment it receives the request; the delay before and after is free.
`lastUpdateTime` is saved and never used, so only whether it is set is kept. A read
of the cached answer while another thread clears it may return either value of each
field. A stamp of the wall clock is one that `NtpStamp` computes for a microsecond
at which the clock shows this millisecond; two stamps are wrong by `StampSpread`
more than one another at most. The server's own stamps are exact, which is right
before February 2036 (`NtpAssumption`). The time zone is a constant here. Division
truncates towards zero and the NITZ difference wraps, as in the code.

### `NtpStamp`

No variables: `ConvertUnixToNtp` and `ConvertNtpToStamp` with their truncations, the
cast that overflows (undefined: it wraps or saturates), and the seconds since 1900 in
32 bits. The sizes of a second and of a fraction are constants; the code has 10^6
microseconds, 10^3 milliseconds and fractions of 2^32. The code multiplies doubles;
for each of the 10^6 microseconds the product truncates to the same integer as the
exact one. `FirstEra` are the years in which the second fits.

### `TimeService`

| Variables | Code |
|---|---|
| `state`, `handler`, `retry`, `published` | `state_`, `serviceHandler_`, the second `Init` posted to it, the publication |
| `started`, `spc`, `initZone` | the main thread in `OnStart`, `Init`, `OnStop` |
| `manager` | whether `timerManagerHandler_` is null |
| `clock`, `phase`, `rtc` | the wall clock's last setting, its position in the minute, the hardware clock in seconds |
| `zone`, `tz`, `zfile` | `curTimezoneId_`, the variable `TZ`, the zone file |
| `running`, `next`, `left`, `tpc` | the tick timer, `nextTriggerTime_` until it is registered, the time to the callback, its thread |
| `pc`, `arg` | the binder threads |
| `setter`, `zoneSetter`, `silent`, `rtcCut`, `overlap`, `zraced`, `lost`, `acked`, `cut`, `jumped`, `late` | ghosts |

Nothing is locked, so a step is one access to shared state: `SetTime` is
`settimeofday`, then `SetRtcTime` (which gets whole seconds), then the event;
`SetTimezone` is the process's offset, then `OpenZoneFile` (which truncates),
`WriteZoneFile`, `AssignZone`, the event. Each may fail as the code lets it: a zone file that cannot be opened or
written is reported as success, a hardware clock that refuses ends `SetTime` with
the clock set and nothing announced. `TimerCall` tests the pointer and
`CreateManager` acts on the test, whatever happened in between; `NullManager` is
the use of a pointer that another thread's failed creation nulled, which ends the
process. Of the manager one bit is kept: with two of them, which the same race can
leave, nothing is promised that could be stated. The tick is registered in two steps,
first the reading of the wall clock (`InitRefresh`, `TickRefresh`), then `Register`; time
may pass and the clock may be set in between. `Crash` and `Restart` keep the clocks and
the file, and the ghosts remember what the process left undone: `setter` and
`zoneSetter` become `Ended`, `rtcCut` is a write of the hardware clock that was due.

`Utils::Timer` is external: one thread, a callback at the registered time or
later, and a `Shutdown` that waits for the callback and drops what is registered.

### `TimerClient`, `SystemTimer`

| Variables | Code |
|---|---|
| `up`, `epoch` | the service's process and which one it is |
| `entries`, `alarms`, `proxied`, `held` | what of `TimerManager` the client depends on |
| `looping`, `due`, `retrig`, `sending` | the looper and its mutexes, the callbacks still to make, the one under way |
| `notifies`, `inCallback`, `triggered` | `NotifyTimer` calls in the application, the one with `timerInfoMutex_`, whether it found its callback |
| `table`, `known` | `TimerInfoMap_`; the numbers the application holds |
| `proxy`, `watchers`, `notices`, `got` | `timeServiceProxy_`, death recipients, death notifications, the result of `ConnectService` |
| `pc`, `op`, `id`, `ok` | a thread's call |
| `records`, `slot`, `freed` | the vector of `system_timer.cpp` and the records already deleted |
| `destroyed`, `raced` | ghosts |

A call tests the proxy twice and uses it once, three separate steps with other
threads in between. Its service side takes `entryMapMutex_`, `mutex_` and
`proxyMutex_` in the order of the code; `ProxyTimer` and `ResetAllProxy` call back
with `proxyMutex_` held and the looper with `mutex_` too. The timer manager is the
abstract one of this module: any started alarms may be due, and any of those may
repeat. Requests may fail to be sent, in both directions. The service dies and
comes back with another `epoch`; the client's death thread then reconnects.

`SystemTimer` adds the asynchronous work of each JavaScript function, of which the
record vector is the only shared state: `Emplace` and `Store` are the two accesses
of `emplace_back` by a pool thread, `CompleteDestroy` is the search, `erase` and
`delete` by the JavaScript thread. The calls that only ask for or set a value are
kept as calls, without their values, because they share the proxy.

## Runs

`tlc -config <run>.cfg <module>`; the module is `MCNtpUpdateTime` for `ntp`
and `utc`, `MCTimeService` for `service`, `MCTimerClient` for `client` and `destroy`, and
`MCTimerManager` for the others.

| Run | Properties | Instance |
|---|---|---|
| `core` | `TypeOK`, `QueuedIsStarted`, `BatchSummary`, `NeverEarly`, `ProxyHolds`, `CalledOnce`, `WakeupArmed`, `ContractKept`, `OnlyReBatchLoses`, `StoppedFireFromProxies` | two timers, two calls of `StartTimer`, two uids that may be proxied; an exact wake-up profile and an inexact repeating one |
| `clock` | `ClockDriftBounded`, `WakeupArmed`, `OneCallbackPerPass` | repeating timers, three clock offsets, one within the tolerance of the first, signals |
| `liveness` | `DueIsServed` | two single-shot timers, fairness |
| `ntp` | `TypeOK`, `UpdateIsAccurate`, `StampNear`, `SavedSettings`, `NitzRespected` | two threads, two calls, one crash, disk errors, a day of two units; 12 microseconds and 6 milliseconds in a second, fractions of 4 bits |
| `service` | `TypeOK`, `ZoneKept`, `ZoneDurable`, `ChangesAnnounced`, `RtcFollowsClock`, `TickAligned`, `TicksGoOn` | two binder threads, two calls, one crash, a minute of three units, a second of two |
| `client` | `TypeOK`, `NoTriggerAfterDestroy`, `StaleProxyNoticed`, `NativeAppSurvives`, `CallsProceed` | two threads, two timers, two calls, one pass of the looper, one crash |
| `window` | `BatchWithinWindow` fails | |
| `stopped` | `StoppedStaysSilent` fails | |
| `lost` | `StartedNotLost` fails | |
| `wallclock` | `WallClockAligned` fails | |
| `utc` | `UpdateIsUTC` fails | one thread, one update, a zone eight units east |
| `destroy` | `AppSurvives` fails | one thread, one timer |

What the passing runs show, beyond the one-line summaries of `PROJECT.json`:

- `core` interleaves start, stop and destroy of two timers with every step of
  the looper. `QueuedIsStarted` says that nothing of a stopped timer is left in
  the pending insertion, the batches, the rebatch or the trigger list.
  `WakeupArmed` is the absence of a lost wake-up: some descriptor is armed, though
  not that it is armed in time. `ContractKept` is the refinement. Both uids may be
  proxied and released at every step of delivery. `OnlyReBatchLoses` and
  `StoppedFireFromProxies` delimit the findings `lost` and `stopped`: a timer that
  waits loses its alarm to a rebatch that finds it due and to nothing else, and a timer that was stopped is called back from a proxy and
  from nowhere else.
- `clock` changes the wall clock while the looper is between its two clock readings,
  or between them and rebatching. A looper that is held up between the two
  (`timer_manager.cpp:389`, `:390`) rebatches for an offset that is too small by the delay,
  and `ClockDriftBounded` allows that much on that side. The run also makes
  the looper late by several periods: `OneCallbackPerPass` needs the count of missed
  periods to be exact.
- `liveness` shows that an alarm leaves the queue even when calls keep rearming
  the descriptor the looper is about to read.
- `ntp` lets two updates overlap with each other, with switching on and off and
  with clock settings by users and by the radio network, fails requests and disk
  accesses, and crashes the process at every step, between truncating and writing the
  file too. The radio network's time ages through all its phases: the difference
  wrapped, trusted, too old. The sizes of a second give each kind of rounding: fractions
  that are exact and that are not, a stamp carried into the next millisecond, and
  the overflow, which costs an update that meets it part of a second.
- `service` lets two settings of the clock or of the zone overlap with each
  other, with `OnStart` and with `OnStop`, fails every device and file access and
  crashes at every step. The exceptions in the properties name the situations in
  which the code promises less: the hardware clock refused (`silent`), the process
  ended before the event (`Ended`) or before the write of the hardware clock
  (`rtcCut`), settings overlapped (`overlap`, `zraced`), the zone file could not be
  written (`lost`), a crash cut a change of the zone short (`cut`), the clock was set
  after the tick's reading of it (`jumped`). `TickAligned` is exact for the delay of
  the tick's thread: a registration `late` units after the reading misses the full
  minute by `late`. `ZoneKept` compares the process's offset with the zone's own for
  zones that are not west of UTC; for the others see the observations. The calls on
  timers are there for the creation race and its end of the process, about which no
  property can promise more than `TypeOK` says.
- `client` lets two calls of any kind overlap with each other, with callbacks in
  both directions of the locks and with the death and return of the service.
  `NoTriggerAfterDestroy` includes the alarms that a proxy holds beyond the
  destruction of their timer. `CallsProceed` is stated as a safety property (some
  step of a begun call is enabled); every such step brings a call or a callback
  closer to its end, so with fair threads calls return. `NativeAppSurvives` names
  when the unlocked `timeServiceProxy_` can end a native application: after a crash of
  the service, or when two threads connected at the same time.

### Bounds

Time is scaled: one unit is what the constant at hand makes interesting.
`MIN_FUTURITY`, the minimal intervals, the tolerance of a clock change and the
smallest interval that gets a window are 1 or 2 units; the upper limits (`HalfDay`,
`Hour`, `MaxInterval`) lie above every delay except where a run clamps. `MaxTime`
leaves room for each alarm to become due and for repeating ones to repeat;
`MaxAlarms` counts calls of `StartTimer` and allows both timers to be started, or one of
them twice. Two timers suffice to have two batches, one batch of two alarms, and a stop
that rebatches another timer's alarm. In `ntp`, a day is two units and eight hours one, and
time runs for three, so that the daily timer fires and the NITZ time passes through
all its phases; one failed registration of the network observer is allowed;
`MaxCalls = 2` allows two overlapping operations besides `Init` and the timer.

In `service` a behaviour draws its calls from one of the `Workloads`: calls on the
clock, on the zone and on timers touch disjoint variables, so mixing them would
multiply states without adding an interaction; the tick goes with the calls on
the clock, which move it, once in a behaviour. Two calls are one overlap, or one setting
before a crash and one after. The times 0 and 5 are a full second and half of one, and
a minute of three units has a phase for a full minute, for one to come and for one in
which a late registration shows. In `client` an application starts fresh or in the middle of its
life, with two timers that are started or held by a proxy, so that two calls are
enough for a destroy to meet a trigger, and for two calls to meet a crash.

Timers and threads, and nothing else, are symmetric; `liveness` and `service`, which
check liveness, use no symmetry.

Deadlock checking is off in `ntp`, `client` and `destroy`, where
the bounds end every behaviour, and an application may stop calling.

### Fairness

`FairSpec` assumes strong fairness of the API call in progress and of the looper,
and weak fairness of time. Both threads contend for `mutex_`, each releases it
after finitely many steps, and the service relies on `std::mutex` not starving
one of them forever: the lock becomes free again and again, hence strong
fairness. Starting calls, signals, proxies and clock changes owe nothing.

`FairSpec` of `TimeService` assumes that time passes, that the thread of the
tick timer is scheduled, and that the main thread registers the first tick once
`Setup` has started the timer's thread, each weakly: they wait for nothing.
`TicksGoOn` needs nothing of the calls or of the rest of `OnStart`.

## Proofs

`tlapm <module>` checks them; no step is left without proof.

**`BatchProofs`** proves what the list operations keep for every list of
well-formed batches: a batch with alarms `A` has `start` the latest `whenElapsed`
and `end` the earliest `maxWhenElapsed` of `A` and is not empty; adding,
removing, inserting in order and coalescing keep this, and lose or invent no
alarm. They rest on maxima and minima of finite sets being attained.

**`TimerManagerTypes`**, from `ConstantsAssumption` and Batch's assumption:

- `TypeCorrect`: `Spec => []TypeOK`, and `BatchSummaryCorrect`:
  `Spec => []BatchSummary`. The inductive invariant `TypeInv` adds to `TypeOK`
  that every batch is well-formed and `ControlOK`: which local variables are set
  at which program counter and who holds `mutex_` there. Without it the looper
  could use a clock reading it never took.

**`TimerManagerProofs`**, each with an invariant of its own on top of `TypeInv`:

- `StoppedTimersAreNotQueued` (`QueuedIsStarted`). While a stop walks the
  batches the timer still counts as started, so `StartedInv` adds that the
  batches already visited are free of it.
- `CallbacksAreNeverEarly` (`NeverEarly`). `DueInv` follows an alarm: popped and
  triggered alarms are due at the looper's `now`, `now` is in the past, and
  alarms held by a proxy were due when they were put there.
- `ProxiesHold` (`ProxyHolds`). `ProxyInv` adds that a proxy holds alarms of its
  own uid only.
- `StoppedTimersFireFromProxiesOnly` (`StoppedFireFromProxies`), an action property from
  `StartedInv`: only the looper and a lifted proxy call back, and what the looper has
  on its trigger list is started.

**`TimerContractProofs`**, on the identity of alarms:

- `CallbacksRunOnce` (`CalledOnce`). That a called alarm is gone is not inductive:
  one that is in two lists is called from the first and stays in the second.
  `UniqueInv` says that every number below `made` is in one place at most, where a
  place is a batch of the list, a batch still to be added again, the pending
  insertion, the popped batch, the trigger list, a proxy, or the last callbacks.
  The lemmas on `Apart` carry this through insertion, coalescing and removal.
- `TimerManagerImplementsContract` (`ContractKept`). Each action maps to
  one of the contract's or to a stutter. `UniqueInv` is what a delivery needs:
  the alarm called back leaves the pool, which it would not with a second copy
  elsewhere; and a new number has not been used before.
- `MissedPeriodsCollapse` (`OneCallbackPerPass`). `OnceInv` says that a timer with an
  alarm on the trigger list has at most its next period besides, and that this
  one is not due at `now`. It rests on `PeriodsCatchUp`: the count of skipped
  periods, a truncating division, reaches past `now`. Two hypotheses, both
  needed. `PeriodsAreExact`: repeating timers follow the boot clock and are
  started at least `MIN_FUTURITY` ahead, because the count starts from a time
  that clamping and rebatching move away from the alarm (see the observations).
  `FreshStart`: `StartTimer` is called for a timer of which nothing is queued,
  because starting a timer twice gives it two alarms.

- `OnlyReBatchLosesTimers` (`OnlyReBatchLoses`), an action property. `WaitInv` says that
  the timer a stop removes does not wait, since a start would need the mutex the stop
  holds, and that one alarm at most is about to be inserted. Then each step
  moves an alarm of a waiting timer to another place or keeps it: the lemmas on
  `RemoveLocked`, on coalescing, and on the rebatch follow it there.

**`TimerWakeupProofs`**, on what the looper sleeps on:

- `ClockChangesAreDigested` (`ClockDriftBounded`). `DriftInv` follows a change of the
  wall clock: the kernel still has it to report, or the looper has the bit that
  reports it, or compares the two clocks it has read, which are `lag` apart, or has
  rebatched for it. It holds for any setting and any delay between the two readings.
- `SleepingLooperIsArmed`: `WakeupArmed` in every behaviour in which, outside of a
  trigger pass, batches start after the boot clock did (`AfterBoot`).
  `timerfd_settime` takes zero for disarming and refuses a negative time, so a
  batch that starts at or before boot arms nothing. `ArmedInv` is `WakeupArmed`
  for the looper's sleep, except while a call is rebatching, when the list is
  incomplete. It is kept although the descriptor of a batch that has moved is not
  disarmed, and although a removal may skip the rebatch: arming only ever adds.
- `WakeupsAreNeverLost` discharges `AfterBoot` under two conditions.
  `PeriodsFollowBootClock`: repeating timers follow the boot clock. `LateStart`: a
  repeating timer is not clamped by more than its interval within `MIN_FUTURITY`
  of boot. With the constants of the code (5 s, and intervals of at least 5 s for
  applications and 1 s for system applications) the second excludes only a call,
  in the first five seconds after boot, for which the two queries of the bundle
  manager in `SetHandler` differ: a system application's interval and another's
  futurity. `SoundInv` relates the time an alarm is due, the time it was asked
  for and the time it was built for, so that a negative count of skipped periods
  goes back once, and by less than `MIN_FUTURITY`. Both conditions hold in the
  runs `core` and `clock`. Without the first, TLC shows batches that start before
  boot inside the trigger pass, which the pass itself takes; whether one can
  survive the pass is not settled.

**`NtpUpdateTimeProofs`**, from `NtpAssumption` and `StampAssumption`, for any number of threads:

- `NtpTypeCorrect`: `Spec => []TypeOK`.
- `UpdatesAreAccurate`: `Spec => []UpdateIsAccurate`. `AccurateInv` bounds the error
  at each stage of each thread: a stamp taken before the request, the server's time
  between the two stamps, the value computed from them (`OffsetAccurate`: the offset
  is wrong by at most half the exchange and half of what the two stamps may be off
  by), the cached answer and the value about to be set, with the time passed since
  each was read. A clock setting marks the exchanges it spoils.
- `SettingsAreSaved` (`SavedSettings`). `SavedInv` has three parts: what runs before
  `Init` has finished and who is on the way to the file (`SaveControl`); that an
  unreadable file is about to be written (`FileInv`); and that what is about to be
  written is the status in memory, and a file with another one is about to be
  opened (`StatusInv`). The ghosts `lost` and `raced` mark a disk error and two saves
  that met.
- `NitzIsRespected` (`NitzRespected`), an action property. `NitzInv` says that the stored
  time is at most eight hours ahead; `NitzWindow`, that the unsigned comparison then
  means an age of eight hours up to a day more. It needs that uptime and
  eight hours and a day fit the word.
- `StampsAreNear` (`StampNear`) and `StampsFollowTheClock` (a later time has no earlier
  stamp), for every size of second and fraction. `FractionNear` carries the two
  truncating divisions: rounding the microsecond up on the way there makes up for
  rounding down on the way back, because a fraction is finer than a microsecond.
  `StampBounds` is what the accuracy of updates rests on.

**`TimeServiceProofs`**, from `ServiceAssumption`, for any number of binder
threads, zones, calls and crashes:

- `ServiceTypeCorrect` (`TypeOK`). `TypeInv` adds that a call's argument is of the
  kind its step writes.
- `TicksAreAligned`. `TickInv` adds the same of a tick that is read and not yet
  registered, where what is missed grows with the time that passes.
- `ChangesAreAnnounced`: inductive given the types.
- `HardwareClockFollows`. `RtcInv` adds that a thread on its way to the hardware
  clock carries the last setting, which is what `overlap` denies, and survives a
  crash, which leaves `rtcCut` behind if such a thread was on its way.
- `ZoneIsKept`, `ZoneIsDurable`. `ZoneInv` follows one change through its steps:
  which of process, file and memory have it already; and that the file holds the
  last acknowledged zone between changes, crashes included.

**`TimerClientProofs`**, from `ClientAssumption`, for any threads, timers, calls and
crashes, with the bindings or without:

- `ClientTypeCorrect` (`TypeOK`). `TypeInv` adds what program counters say of a
  call, that `entryMapMutex_` has one owner whose entry exists, and that the
  service is up while anything runs in it.
- `DestroyedTimersAreSilent` (`NoTriggerAfterDestroy`). `DestroyInv` adds that
  destroyed timers are out of the table and that a running `OnTrigger` is in it,
  which `timerInfoMutex_` keeps true.
- `DeadServicesAreNoticed` (`StaleProxyNoticed`). `LinkInv` adds that a proxy to the
  running process, stored or about to be, is watched, so that its death becomes a
  notification.
- `NativeApplicationsSurvive` (`NativeAppSurvives`). `SurviveInv` adds, for a service
  that has not crashed: a thread about to store a proxy has registered a death
  recipient of its own, so if there is a proxy already, or another thread about to store
  one, there are two.
- `NobodyWaitsForever` (`NobodyStuck`), the counterpart of `CallsProceed` without
  `ENABLED`: `CanProceed`, `LooperCanProceed` and `CallbackCanProceed` write out what each
  next step waits for, and one of them is true while anything is in progress.
  `LockOrder` is the argument: a callback in the application waits for nobody,
  then come `proxyMutex_`, `mutex_` and `entryMapMutex_`. It is stricter than
  `CallsProceed` in that a permitted caller of `ProxyTimer` counts as waiting for
  `proxyMutex_`. That the written guards are those of the actions is what
  `CallsProceed` checks with TLC.

The assumptions on constants say what the code does: distinct values are distinct,
bounds are numbers, intervals are positive, tolerances are not negative. Hypotheses of
single theorems are stated in them and explained above.

Only model-checked: `DueIsServed` and `TicksGoOn` (liveness under fairness) and
`CallsProceed` (`ENABLED`) are beyond the prover. `OneCallbackPerPass` and
`WakeupArmed` are proved under the hypotheses named above and checked on the
instances. The six properties that fail have nothing to prove.

## Observations

Six runs show the code doing something other than its documentation says;
`PROJECT.json` quotes the lines.

- `window`: `AttemptCoalesceLocked` returns index 0 whenever some batch can hold
  the alarm, so an alarm joins a batch that cannot hold it and an exact alarm in
  it is delivered late.
- `stopped`: `RemoveProxy` edits a copy; when the proxy holds another alarm too, a timer
  whose stop has completed still fires when the proxy is lifted.
- `lost`: a rebatch drops an alarm that is due and not yet taken.
- `wallclock`: a clock change between the conversion in `SetHandler` and the
  insertion leaves the alarm at the old offset.
- `destroy`: the completion of `destroyTimer` erases the record it looks for and
  then deletes the record after it; when there is none it walks past the end of
  the vector.
- `utc`: the clock is set to UTC plus the zone's offset (`ntp_update_time.cpp:179`);
  `UpdateIsAccurate` states accuracy relative to that.

Seen while modelling, and part of the models where they concern them:

- `timer_manager.cpp:288` keeps the result of the last batch only, so a removal
  may skip the rebatch that would rearm the kernel for an earlier head.
- `timer_manager.cpp:220`: a trigger time in the past is ignored while
  `StartTimer` reports success.
- `timer_manager.cpp:460` uses an expected time that rebatching leaves behind:
  a wall-clock repeating timer may be triggered twice in a pass after a clock
  change. `OneCallbackPerPass` is checked for timers on the boot clock.
- `timer_handler.cpp:131`: the descriptors block, so the looper may wait in `read`
  for a time a call has just set. It is woken by that time.
- Network updates triggered by the observer ignore the OFF status
  (`net_conn_callback_observer.cpp:35`); an `UpdateStatusOn` that is still waiting
  for the server overwrites a later off (`ntp_update_time.cpp:215`).
- The NITZ time is ignored for eight hours and honoured for the following day
  (`ntp_update_time.cpp:152`, `:234`).
- A stamp is a millisecond ahead of the clock at the last microsecond of each eighth
  of a second, and up to a second behind at the last one of a second
  (`sntp_client.cpp:169`).
- From February 2036 the seconds of a stamp wrap; where `unsigned long` has 64 bits
  the network's time is then negative and every update ends at
  `ntp_update_time.cpp:173` without setting the clock. `StampNear` and `UpdateIsAccurate` are
  about the years before.
- A read of the cached answer while it is cleared can set the clock near 1970
  (`ntp_trusted_time.cpp:144`).
- Two overlapping `SetTime` calls may leave the hardware clock at one time and the
  wall clock at the other (`time_service.cpp:352`; the ghost `overlap`).
- A crash while the zone is saved leaves a truncated file, and the service comes
  back with its default zone (`time_zone_info.cpp:187`; the ghost `cut`).
- A zone with a negative offset sets `TZ` to `UTC--5`, which reads as UTC: the process of
  a device west of UTC runs at UTC while `setTimezone` (`@ohos.systemTime.d.ts:73`) has
  reported success (`time_zone_info.cpp:154`; `OffsetInTZ`). `ZoneKept` is about the
  other zones in this respect.
- Two threads that find no timer manager create one each, and the timers of the first are
  unknown to later calls (`time_service.cpp:250`).
- A crash between `settimeofday` and the event, or the write of the hardware clock, leaves
  the change unannounced, or the hardware clock behind, for good: nothing looks for it at
  the next start (`time_service.cpp:352`, `:358`; `Ended`, `rtcCut`).
- `Init` is tried a second time and not a third, and the second `Init` does not
  register the dump commands (`time_service.cpp:129`).
- A failed creation of the timer manager nulls the pointer that another thread
  has tested and is about to use (`time_service.cpp:250`; `NullManager`).
- `ProxyTimer` and `ResetAllProxy` return an error code as a bool, so a caller
  without permission is told of success (`time_service.cpp:695`; `RefuseProxy`).
- A call tests `timeServiceProxy_` and uses it later; a reconnection that fails in
  between makes it null, and the application ends (`SendRequest`). Two threads that
  connect at once store one after the other, and the second releases the proxy the
  first may be calling through (`time_service_client.cpp:159`; `ProxyShared`). A
  proxy stored after its process died is never replaced (the ghost `raced`).
- Timers of a service that has died stay in the client's table; a new timer that
  gets the same number cannot be created.
- The JavaScript callback of a timer may run after `destroyTimer` has resolved,
  because `OnTrigger` queues it; `NoTriggerAfterDestroy` is about `OnTrigger`.
- `createTimer` resolves with 0, and the getters of `js_systemtime.cpp` with a
  negative time, when the call fails.

## Limits

Not modelled, with the reason, per component in `PROJECT.json`: the diagnostics
(output only) and the wrappers of permissions and files, whose outcomes are
nondeterministic choices where they are used. In the modelled parts: functions
that only read (`ShowTimer` and the like, the dumps, the values of the getters,
the unused getters of the cache); logging and statistics; the layout of packets
and parcels; the reading of JavaScript arguments and the building of results;
failures of memory allocation; `Batch`'s order of equal alarms; the STANDALONE
flag is kept in the batches although the service never sets it.

The modules share no state. `TimerManager` takes a callback for one step and
`TimerClient` takes the timer manager for a set of alarms, with the same mutexes;
`NtpUpdateTime` and `TimeService` each model `SetTime`, one by its effect on the
clock's error, the other with the hardware clock and the event. The time zone does
not change during a network update. Recursion over data does not occur, so nothing
is lost to the prover there.
