------------------------- MODULE TimerManagerProofs -------------------------
(***************************************************************************)
(* Safety of TimerManager for every value of its constants: what a stop    *)
(* leaves behind, when callbacks may run, and what a proxy holds back.     *)
(* Each property is strengthened to an inductive invariant whose steps use *)
(* the typing and lock discipline of TimerManagerTypes.                    *)
(***************************************************************************)
EXTENDS TimerManagerTypes

\* A stop sweeps the list from the front: what lies behind its position is
\* clean, and once the sweep is over the timer is not started any more.
StartedInv ==
    /\ \A a \in Queued : a.id \in started
    /\ \A id \in started : entries[id] \in Profiles
    /\ apc = "remove" => \A i \in 1 .. Len(batches) :
           i < call.pos => \A a \in batches[i].alarms : a.id # call.id
    /\ apc \in {"rebatch", "unproxy"} => call.id \notin started

\* What the looper has taken from the list was due when it sampled the clock.
DueInv ==
    /\ lpc \in {"changed", "rebatch", "trigger", "pop", "deliver"} => now <= boot
    /\ \A a \in popped \cup triggerList : a.whenElapsed <= now
    /\ \A u \in Uids : \A a \in proxyMap[u] : a.whenElapsed <= boot
    /\ NeverEarly

\* A proxy holds the alarms of its own uid.
ProxyInv ==
    /\ \A u \in Uids : \A a \in proxyMap[u] : a.prof.uid = u
    /\ ProxyHolds

-----------------------------------------------------------------------------
(* Stopped timers *)

\* Steps that touch neither the lists nor the bookkeeping of calls.
LEMMA StartedQuiet ==
    ASSUME StartedInv,
           UNCHANGED <<batches, readd, pending, popped, triggerList, started, entries, apc, call>>
    PROVE  StartedInv'
BY DEF StartedInv, Queued, AlarmsOf

\* The queues, one by one.
LEMMA InQueued ==
    ASSUME NEW a
    PROVE  a \in Queued <=> \/ a \in AlarmsOf(batches) \/ a \in AlarmsOf(readd)
                            \/ a \in pending \/ a \in popped \/ a \in triggerList
BY DEF Queued

\* The alarms of an empty list.
LEMMA AlarmsOfEmpty == AlarmsOf(<<>>) = {}
BY DEF AlarmsOf

\* Every action keeps the alarms of stopped timers out of all lists.
LEMMA StartedStep == TypeInv /\ StartedInv /\ [Next]_vars => StartedInv'
<1> SUFFICES ASSUME TypeInv, StartedInv, [Next]_vars PROVE StartedInv'
  OBVIOUS
<1> USE DEF clockVars, callVars, readdVars, looperVars, proxyVars, ghostVars
<1> DEFINE Clean == apc' = "remove" => \A i \in 1 .. Len(batches') :
                        i < call'.pos => \A a \in batches'[i].alarms : a.id # call'.id
           Named == \A a \in Queued' : a.id \in started'
           Known == \A id \in started' : entries'[id] \in Profiles
           Ended == apc' \in {"rebatch", "unproxy"} => call'.id \notin started'
<1>0. TypeOK /\ ControlOK /\ AllWellFormed(batches)
  BY DEF TypeInv
<1>S. /\ \A a \in Queued : a.id \in started
      /\ \A id \in started : entries[id] \in Profiles
      /\ apc = "remove" => \A i \in 1 .. Len(batches) :
             i < call.pos => \A a \in batches[i].alarms : a.id # call.id
      /\ apc \in {"rebatch", "unproxy"} => call.id \notin started
  BY DEF StartedInv
<1>G. Named /\ Known /\ Clean /\ Ended => StartedInv'
  BY DEF StartedInv
<1>1. ASSUME NEW id \in Ids, NEW prof \in Profiles, CreateTimer(id, prof) PROVE StartedInv'
  <2>1. Named
    BY <1>S, <1>1 DEF CreateTimer, Queued, AlarmsOf
  <2>2. Known
    BY <1>S, <1>0, <1>1 DEF CreateTimer, TypeOK
  <2>3. Clean /\ Ended
    BY <1>1 DEF CreateTimer
  <2> QED BY <2>1, <2>2, <2>3, <1>G
<1>2. ASSUME NEW id \in Ids, NEW delay \in Delays, StartTimer(id, delay) PROVE StartedInv'
  <2> DEFINE prof == entries[id]
             when == delay + boot + (IF prof.rtc THEN rtcOff ELSE 0)
  <2>1. prof \in Profiles /\ when \in Int /\ id \in started'
    BY <1>0, <1>2, ConstantsAssumption DEF TypeOK, StartTimer
  <2> HIDE DEF when
  <2>2. \A a \in pending' : a \in pending \/ a.id = id
    <3>1. CASE ConvertToElapsed(when, prof.rtc) < boot
      BY <1>2, <3>1 DEF StartTimer, when
    <3>2. CASE ~(ConvertToElapsed(when, prof.rtc) < boot)
      <4>1. PICK si \in IsSystemUid(prof.uid), sf \in IsSystemUid(prof.uid) :
               pending' = {NewAlarm(id, prof, when, si, sf)}
        BY <1>2, <3>2 DEF StartTimer, when
      <4>2. si \in BOOLEAN /\ sf \in BOOLEAN
        BY DEF IsSystemUid
      <4>3. NewAlarm(id, prof, when, si, sf).id = id
        BY <4>2, <2>1, <1>0, NewAlarmType
      <4> QED BY <4>1, <4>3
    <3> QED BY <3>1, <3>2
  <2>3. apc' \in {"idle", "commit"}
    BY <1>2 DEF StartTimer
  <2>4. Named
    <3> SUFFICES ASSUME NEW a \in Queued' PROVE a.id \in started'
      OBVIOUS
    <3>1. a \in Queued \/ a.id = id
      BY <1>2, <2>2 DEF StartTimer, Queued
    <3> QED BY <3>1, <2>1, <1>S, <1>2 DEF StartTimer
  <2>5. Known
    BY <1>S, <1>2, <2>1 DEF StartTimer
  <2> QED BY <2>3, <2>4, <2>5, <1>G
<1>3. ASSUME NEW id \in Ids, NEW needDestroy \in BOOLEAN, StopTimerInner(id, needDestroy)
      PROVE  StartedInv'
  <2>1. Named /\ Known
    BY <1>S, <1>3 DEF StopTimerInner, Queued, AlarmsOf
  <2>2. apc' = "remove" /\ call'.pos = 1
    BY <1>3 DEF StopTimerInner
  <2>3. Clean
    BY <2>2
  <2> QED BY <2>1, <2>2, <2>3, <1>G
<1>4. CASE CommitTimer
  <2>1. PICK a \in pending : SetHandlerLocked(a)
    BY <1>4 DEF CommitTimer
  <2>2. AlarmsOf(batches') = AlarmsOf(batches) \cup {a}
    <3>1. a \in Alarm
      BY <1>0, <2>1 DEF TypeOK
    <3> QED BY <3>1, <2>1, <1>0, SetHandlerProperties
  <2>3. Queued' \subseteq Queued
    BY <2>1, <2>2, <1>4 DEF CommitTimer, Queued
  <2>4. Named /\ Known
    BY <2>3, <1>S, <1>4 DEF CommitTimer
  <2> QED BY <2>4, <1>4, <1>G DEF CommitTimer
<1>5. CASE RemoveLocked
  <2>1. /\ call'.id = call.id
        /\ AlarmsOf(batches') \subseteq AlarmsOf(batches)
        /\ \A i \in 1 .. Len(batches') : i < call'.pos =>
              \/ i < call.pos /\ i \in 1 .. Len(batches) /\ batches'[i] = batches[i]
              \/ \A a \in batches'[i].alarms : a.id # call.id
    BY <1>5, RemoveLockedProperties
  <2>2. Queued' \subseteq Queued
    BY <2>1, <1>5 DEF RemoveLocked, Queued
  <2>3. Named /\ Known
    BY <2>2, <1>S, <1>5 DEF RemoveLocked
  <2>4. apc = "remove" /\ apc' = "remove"
    BY <1>5 DEF RemoveLocked
  <2>5. Clean
    BY <2>1, <2>4, <1>S
  <2> QED BY <2>3, <2>4, <2>5, <1>G
<1>6. CASE RemoveDone
  <2>1. readd = <<>> /\ pending = {} /\ popped = {} /\ triggerList = {}
    BY <1>0, <1>6 DEF RemoveDone, ControlOK, TypeOK
  <2>2. /\ apc = "remove" /\ call.pos > Len(batches) /\ call' = call
        /\ started' = started \ {call.id} /\ entries' = entries
        /\ pending' = pending /\ popped' = popped /\ triggerList' = triggerList
        /\ apc' \in {"rebatch", "unproxy"}
    BY <1>6 DEF RemoveDone
  <2>3. \A a \in AlarmsOf(batches) : a.id \in started'
    <3> SUFFICES ASSUME NEW a \in AlarmsOf(batches) PROVE a.id \in started'
      OBVIOUS
    <3>1. PICK i \in 1 .. Len(batches) : a \in batches[i].alarms
      BY InAlarmsOf
    <3>2. i < call.pos
      BY <2>2, <3>1, <1>0 DEF TypeOK
    <3>3. a.id # call.id
      BY <3>1, <3>2, <2>2, <1>S
    <3>4. a.id \in started
      BY <1>S, InQueued
    <3> QED BY <3>3, <3>4, <2>2
  <2>4. \/ AlarmsOf(batches') = AlarmsOf(batches) /\ readd' = readd
        \/ batches' = <<>> /\ readd' = batches
    BY <1>6 DEF RemoveDone, BeginReBatch
  <2>5. AlarmsOf(batches') \cup AlarmsOf(readd') \subseteq AlarmsOf(batches)
    BY <2>1, <2>4, AlarmsOfEmpty
  <2>6. Queued' \subseteq AlarmsOf(batches)
    BY <2>1, <2>2, <2>5 DEF Queued
  <2>7. Named /\ Known
    BY <2>2, <2>3, <2>6, <1>S
  <2> QED BY <2>2, <2>7, <1>G
<1>7. CASE RemoveProxy
  <2>1. Named
    BY <1>S, <1>7 DEF RemoveProxy, Queued, AlarmsOf
  <2>2. apc = "unproxy" /\ apc' = "idle" /\ started' = started /\ call.id \notin started
    BY <1>S, <1>7 DEF RemoveProxy
  <2>3. Known
    BY <2>2, <1>S, <1>0, <1>7 DEF RemoveProxy, TypeOK
  <2> QED BY <2>1, <2>2, <2>3, <1>G
<1>8. CASE ReAddTimerLocked
  <2>1. PICK a \in NextOf(readd[1].alarms) :
          /\ readd' = DropFirst(readd, a)
          /\ IF ConvertToElapsed(a.when, a.prof.rtc) < readdNow
             THEN UNCHANGED batches
             ELSE batches' \in InsertAndBatchTimerLocked(batches, Recomputed(a))
    BY <1>8 DEF ReAddTimerLocked
  <2>2. readd \in Seq(BatchType) /\ readd # <<>> /\ batches \in Seq(BatchType) /\ readdNow \in Int
    BY <1>0, <1>8 DEF TypeOK, ControlOK, ReAddTimerLocked
  <2>3. a \in readd[1].alarms
    BY <2>1 DEF NextOf
  <2>4. a \in Alarm /\ AlarmsOf(readd') \subseteq AlarmsOf(readd)
    BY <2>1, <2>2, <2>3, DropFirstProperties
  <2>5. a \in AlarmsOf(readd)
    <3>1. 1 \in 1 .. Len(readd)
      BY <2>2, EmptySeq, LenProperties
    <3> QED BY <3>1, <2>3, InAlarmsOf
  <2>6. a.id \in started
    BY <2>5, <1>S, InQueued
  <2>7. Recomputed(a) \in Alarm /\ Recomputed(a).id = a.id
    BY <2>2, <2>4, <1>0, RecomputedType
  <2>8. AlarmsOf(batches') \subseteq AlarmsOf(batches) \cup {Recomputed(a)}
    <3>1. CASE ConvertToElapsed(a.when, a.prof.rtc) < readdNow
      BY <3>1, <2>1
    <3>2. CASE ~(ConvertToElapsed(a.when, a.prof.rtc) < readdNow)
      BY <3>2, <2>1, <2>2, <2>7, <1>0, InsertProperties
    <3> QED BY <3>1, <3>2
  <2>9. Queued' \subseteq Queued \cup {Recomputed(a)}
    BY <2>4, <2>8, <1>8 DEF ReAddTimerLocked, Queued
  <2>10. Named /\ Known
    BY <2>6, <2>7, <2>9, <1>S, <1>8 DEF ReAddTimerLocked
  <2>11. apc # "remove" /\ apc' = apc /\ call' = call /\ started' = started
    BY <1>0, <1>8 DEF ReAddTimerLocked, ControlOK
  <2> QED BY <2>10, <2>11, <1>S, <1>G
<1>9. CASE ReBatchDone /\ (apc = "rebatch" \/ lpc = "rebatch")
  <2>1. Named /\ Known
    BY <1>S, <1>9 DEF ReBatchDone, Queued, AlarmsOf
  <2>2. Clean /\ Ended
    BY <1>S, <1>9 DEF ReBatchDone
  <2> QED BY <2>1, <2>2, <1>G
<1>10. CASE TimeChanged
  <2>1. readd = <<>> /\ apc # "remove"
    BY <1>0, <1>10 DEF TimeChanged, ControlOK
  <2>2. /\ apc' = apc /\ call' = call /\ started' = started /\ entries' = entries
        /\ pending' = pending /\ popped' = popped /\ triggerList' = triggerList
    BY <1>10 DEF TimeChanged
  <2>3. \/ AlarmsOf(batches') = AlarmsOf(batches) /\ readd' = readd
        \/ batches' = <<>> /\ readd' = batches
    BY <1>10 DEF TimeChanged, BeginReBatch
  <2>4. Queued' \subseteq Queued
    BY <2>1, <2>2, <2>3, AlarmsOfEmpty DEF Queued
  <2> QED BY <2>1, <2>2, <2>4, <1>S, <1>G
<1>11. CASE PopBatch
  <2>1. apc # "remove"
    BY <1>0, <1>11 DEF PopBatch, ControlOK
  <2>2. /\ apc' = apc /\ call' = call /\ started' = started /\ entries' = entries
        /\ pending' = pending /\ readd' = readd /\ triggerList' = triggerList
    BY <1>11 DEF PopBatch
  <2>3. AlarmsOf(batches') \cup popped' \subseteq AlarmsOf(batches) \cup popped
    <3>1. CASE HeadIsDue
      <4>1. batches # <<>> /\ batches \in Seq(BatchType)
        BY <1>0, <3>1 DEF HeadIsDue, TypeOK
      <4>2. batches' = Tail(batches) /\ popped' = batches[1].alarms
        BY <1>11, <3>1 DEF PopBatch
      <4> QED BY <4>1, <4>2, <1>0, TailProperties
    <3>2. CASE ~HeadIsDue
      BY <1>11, <3>2 DEF PopBatch
    <3> QED BY <3>1, <3>2
  <2>4. Queued' \subseteq Queued
    BY <2>2, <2>3 DEF Queued
  <2> QED BY <2>1, <2>2, <2>4, <1>S, <1>G
<1>12. CASE TriggerTimersLocked
  <2>1. PICK a \in NextOf(popped) :
          /\ popped' = popped \ {a}
          /\ triggerList' = triggerList \cup {a}
          /\ IF a.interval > 0
             THEN SetHandlerLocked(NextPeriod(a)) /\ made' = made + 1
             ELSE UNCHANGED <<batches, fd, made>>
    BY <1>12 DEF TriggerTimersLocked
  <2>2. a \in Alarm /\ now \in Int /\ a \in popped
    BY <1>0, <1>12, <2>1 DEF NextOf, TypeOK, ControlOK, TriggerTimersLocked
  <2>3. \A c \in AlarmsOf(batches') : c \in AlarmsOf(batches) \/ c.id = a.id
    <3>1. CASE a.interval > 0
      <4>1. NextPeriod(a) \in Alarm /\ NextPeriod(a).id = a.id
        BY <3>1, <2>2, <1>0, NextPeriodType
      <4>2. AlarmsOf(batches') = AlarmsOf(batches) \cup {NextPeriod(a)}
        BY <3>1, <4>1, <2>1, <1>0, SetHandlerProperties
      <4> QED BY <4>1, <4>2
    <3>2. CASE ~(a.interval > 0)
      BY <3>2, <2>1
    <3> QED BY <3>1, <3>2
  <2>4. apc # "remove"
    BY <1>0, <1>12 DEF TriggerTimersLocked, ControlOK
  <2>5. /\ apc' = apc /\ call' = call /\ started' = started /\ entries' = entries
        /\ pending' = pending /\ readd' = readd
    BY <1>12 DEF TriggerTimersLocked
  <2>6. a.id \in started
    BY <2>2, <1>S, InQueued
  <2>7. \A c \in Queued' : c \in Queued \/ c.id = a.id
    BY <2>1, <2>2, <2>3, <2>5 DEF Queued
  <2> QED BY <2>4, <2>5, <2>6, <2>7, <1>S, <1>G
<1>13. CASE DeliverTimersLocked
  <2>1. apc # "remove"
    BY <1>0, <1>13 DEF DeliverTimersLocked, ControlOK
  <2>2. /\ apc' = apc /\ call' = call /\ started' = started /\ entries' = entries
        /\ pending' = pending /\ readd' = readd /\ popped' = popped /\ batches' = batches
        /\ triggerList' \subseteq triggerList
    BY <1>13 DEF DeliverTimersLocked
  <2>3. Queued' \subseteq Queued
    BY <2>2 DEF Queued
  <2> QED BY <2>1, <2>2, <2>3, <1>S, <1>G
<1>14. CASE \/ EpollWait \/ Interrupted \/ (\E f \in Events : ReadFd(f))
            \/ SampleRtc \/ SampleElapsed \/ BeginTrigger \/ DeliverDone
  BY <1>14, StartedQuiet
  DEF EpollWait, Interrupted, ReadFd, SampleRtc, SampleElapsed, BeginTrigger, DeliverDone
<1>15. CASE Proxy \/ Tick \/ \E off \in Offsets : SetTime(off)
  BY <1>15, StartedQuiet DEF Proxy, ProxyTimerOn, ProxyTimerOff, ResetAllProxy, Tick, SetTime
<1>16. CASE UNCHANGED vars
  BY <1>16, StartedQuiet DEF vars
<1> QED
  BY <1>1, <1>2, <1>3, <1>4, <1>5, <1>6, <1>7, <1>8, <1>9, <1>10, <1>11, <1>12,
     <1>13, <1>14, <1>15, <1>16
  DEF Next, Client, ApiStep, LooperStep, Environment

\* QueuedIsStarted holds in every reachable state: a timer that was stopped or
\* destroyed has no alarm between StartTimer and the trigger list, for any
\* number of timers and calls and any interleaving with the looper.
THEOREM StoppedTimersAreNotQueued == Spec => []QueuedIsStarted
<1>1. Init => StartedInv
  BY AlarmsOfEmpty DEF Init, StartedInv, Queued
<1>2. StartedInv => QueuedIsStarted
  BY DEF StartedInv, QueuedIsStarted, IdsOf
<1> QED BY <1>1, <1>2, TypeInit, TypeStep, StartedStep, PTL DEF Spec

\* Every step: what it calls back is a timer that is started, or an alarm that a
\* proxy held.
LEMMA FireStep ==
    TypeInv /\ StartedInv /\ Next => \A a \in called' : a.id \in started \/ a \in Held
<1> SUFFICES ASSUME TypeInv, StartedInv, Next, NEW a \in called'
             PROVE  a.id \in started \/ a \in Held
  OBVIOUS
<1>1. CASE DeliverTimersLocked
  <2>1. a \in triggerList
    BY <1>1 DEF DeliverTimersLocked, NextOf
  <2> QED BY <2>1, InQueued DEF StartedInv
<1>2. ASSUME NEW uid \in Proxied, NEW needRetrigger \in BOOLEAN,
             ProxyTimerOff(uid, needRetrigger)
      PROVE  a \in Held
  <2>1. a \in proxyMap[uid] /\ uid \in Uids
    BY <1>2, ConstantsAssumption DEF ProxyTimerOff
  <2> QED BY <2>1 DEF Held
<1>3. CASE ResetAllProxy
  BY <1>3 DEF ResetAllProxy, Held
<1>4. CASE \/ Client \/ ApiStep \/ Environment
           \/ EpollWait \/ (\E f \in Events : ReadFd(f)) \/ SampleRtc \/ SampleElapsed
           \/ TimeChanged
           \/ ReAddTimerLocked \/ ReBatchDone
  <2>1. called' = {}
    BY <1>4 DEF Client, CreateTimer, StartTimer, StopTimerInner, ApiStep, CommitTimer,
       RemoveLocked, RemoveDone, RemoveProxy, ReAddTimerLocked, ReBatchDone, Environment,
       Tick, Interrupted, SetTime, EpollWait, ReadFd, SampleRtc, SampleElapsed, TimeChanged
  <2> QED BY <2>1
<1>5. CASE BeginTrigger \/ PopBatch \/ TriggerTimersLocked \/ DeliverDone
  BY <1>5 DEF BeginTrigger, PopBatch, TriggerTimersLocked, DeliverDone
<1>6. ASSUME NEW uid \in Proxied, ProxyTimerOn(uid) PROVE FALSE
  BY <1>6 DEF ProxyTimerOn
<1> QED BY <1>1, <1>2, <1>3, <1>4, <1>5, <1>6 DEF Next, LooperStep, Proxy

\* StoppedFireFromProxies holds of every step of every behaviour: once a stop has
\* returned, the only callbacks of the timer still to come are those of alarms
\* that a proxy was holding, wherever the looper was when the stop came in.
THEOREM StoppedTimersFireFromProxiesOnly == Spec => StoppedFireFromProxies
<1>1. Init => StartedInv
  BY AlarmsOfEmpty DEF Init, StartedInv, Queued
<1> DEFINE Fire == \A a \in called' : a.id \in started \/ a \in Held
<1>2. TypeInv /\ StartedInv /\ [Next]_vars => [Fire]_vars
  BY FireStep
<1>3. Spec => [][Fire]_vars
  BY <1>1, <1>2, TypeInit, TypeStep, StartedStep, PTL DEF Spec
<1> QED BY <1>3 DEF StoppedFireFromProxies

-----------------------------------------------------------------------------
(* Callbacks are never early *)

\* Every action keeps the popped and triggered alarms due.
LEMMA DueStep == TypeInv /\ DueInv /\ [Next]_vars => DueInv'
<1> SUFFICES ASSUME TypeInv, DueInv, [Next]_vars PROVE DueInv'
  OBVIOUS
<1> USE DEF clockVars, callVars, readdVars, looperVars, proxyVars, ghostVars
<1>0. TypeOK /\ ControlOK /\ AllWellFormed(batches)
  BY DEF TypeInv
<1> DEFINE Quiet == /\ boot' = boot /\ lpc' = lpc /\ now' = now /\ popped' = popped
                    /\ triggerList' = triggerList
                    /\ proxyMap' = proxyMap
                    /\ called' \in {called, {}}
<1>Q. ASSUME Quiet PROVE DueInv'
  BY <1>Q DEF DueInv, NeverEarly
<1>1. CASE Client \/ CommitTimer \/ RemoveLocked \/ RemoveDone \/ (\E f \in Events : ReadFd(f))
           \/ ReAddTimerLocked \/ (\E off \in Offsets : SetTime(off))
           \/ (\E uid \in Proxied : ProxyTimerOn(uid)) \/ UNCHANGED vars
  BY <1>1, <1>Q
  DEF Client, CreateTimer, StartTimer, StopTimerInner, CommitTimer, RemoveLocked, RemoveDone,
      ReadFd, ReAddTimerLocked, SetTime, ProxyTimerOn, vars
<1>2. CASE RemoveProxy
  <2>1. entries[call.id].uid \in Uids
    BY <1>0, <1>2, ConstantsAssumption DEF ControlOK, RemoveProxy
  <2>2. \A u \in Uids : proxyMap'[u] \subseteq proxyMap[u]
    BY <1>0, <1>2, <2>1 DEF RemoveProxy, Erased, TypeOK
  <2>3. /\ boot' = boot /\ lpc' = lpc /\ now' = now /\ popped' = popped
        /\ triggerList' = triggerList /\ called' = {}
    BY <1>2 DEF RemoveProxy
  <2> QED BY <2>2, <2>3 DEF DueInv, NeverEarly
<1>3. CASE ReBatchDone /\ (apc = "rebatch" \/ lpc = "rebatch")
  BY <1>3, <1>0 DEF ReBatchDone, DueInv, NeverEarly
<1>4. CASE EpollWait \/ Interrupted
  BY <1>4, <1>0 DEF EpollWait, Interrupted, DueInv, NeverEarly, TypeOK
<1>5. CASE SampleRtc \/ SampleElapsed
  <2>1. popped = {} /\ triggerList = {} /\ boot \in Nat
    BY <1>0, <1>5 DEF SampleRtc, SampleElapsed, ControlOK, TypeOK
  <2> QED BY <2>1, <1>5 DEF SampleRtc, SampleElapsed, DueInv, NeverEarly
<1>6. CASE TimeChanged
  BY <1>6, <1>0 DEF TimeChanged, DueInv, NeverEarly
<1>7. CASE BeginTrigger \/ DeliverDone
  <2>1. popped = {} /\ triggerList = {}
    BY <1>0, <1>7 DEF BeginTrigger, DeliverDone, ControlOK
  <2> QED BY <2>1, <1>7 DEF BeginTrigger, DeliverDone, DueInv, NeverEarly
<1>8. CASE PopBatch
  <2>1. CASE HeadIsDue
    <3>1. batches # <<>> /\ batches \in Seq(BatchType) /\ batches[1].start <= now /\ now \in Int
      BY <1>0, <1>8, <2>1 DEF HeadIsDue, TypeOK, ControlOK, PopBatch
    <3>2. batches[1] \in BatchType /\ WellFormed(batches[1])
      BY <3>1, <1>0, TailProperties
    <3>3. \A a \in batches[1].alarms : a.whenElapsed \in Int /\ a.whenElapsed <= batches[1].start
      BY <3>2, AlarmFields, BatchFields DEF WellFormed
    <3>4. \A a \in batches[1].alarms : a.whenElapsed <= now
      BY <3>1, <3>2, <3>3, BatchFields
    <3>5. popped' = batches[1].alarms /\ lpc' = lpc
      BY <1>8, <2>1 DEF PopBatch
    <3> QED BY <3>4, <3>5, <1>8 DEF PopBatch, DueInv, NeverEarly
  <2>2. CASE ~HeadIsDue
    BY <2>2, <1>8 DEF PopBatch, DueInv, NeverEarly
  <2> QED BY <2>1, <2>2
<1>9. CASE TriggerTimersLocked
  BY <1>9 DEF TriggerTimersLocked, NextOf, DueInv, NeverEarly
<1>10. CASE DeliverTimersLocked
  <2>1. PICK a \in triggerList :
          /\ triggerList' = triggerList \ {a}
          /\ IF IsProxied(a)
             THEN /\ proxyMap' = [proxyMap EXCEPT ![a.prof.uid] = @ \cup {a}]
                  /\ called' = {}
             ELSE /\ called' = {a}
                  /\ UNCHANGED proxyMap
    BY <1>10 DEF DeliverTimersLocked, NextOf
  <2>2. a.whenElapsed <= boot
    <3>1. a \in Alarm /\ now \in Int /\ boot \in Int /\ now <= boot /\ a.whenElapsed <= now
      BY <2>1, <1>0, <1>10 DEF DueInv, DeliverTimersLocked, TypeOK, ControlOK
    <3>2. a.whenElapsed \in Int
      BY <3>1, AlarmFields
    <3> QED BY <3>1, <3>2
  <2>3. \A u \in Uids : \A c \in proxyMap'[u] : c \in proxyMap[u] \/ c = a
    BY <2>1, <1>0 DEF TypeOK
  <2>4. \A c \in called' : c = a
    BY <2>1
  <2>5. /\ boot' = boot /\ lpc' = lpc /\ now' = now /\ popped' = popped
        /\ triggerList' \subseteq triggerList
    BY <1>10 DEF DeliverTimersLocked
  <2> QED BY <2>2, <2>3, <2>4, <2>5 DEF DueInv, NeverEarly
<1>11. ASSUME NEW uid \in Proxied, NEW needRetrigger \in BOOLEAN,
              ProxyTimerOff(uid, needRetrigger)
       PROVE  DueInv'
  <2>1. uid \in Uids
    BY ConstantsAssumption
  <2>2. \A u \in Uids : proxyMap'[u] \subseteq proxyMap[u]
    BY <1>0, <1>11, <2>1 DEF ProxyTimerOff, Erased, TypeOK
  <2>3. called' \subseteq proxyMap[uid]
    BY <1>11 DEF ProxyTimerOff
  <2>4. /\ boot' = boot /\ lpc' = lpc /\ now' = now /\ popped' = popped
        /\ triggerList' = triggerList
    BY <1>11 DEF ProxyTimerOff
  <2> QED BY <2>1, <2>2, <2>3, <2>4 DEF DueInv, NeverEarly
<1>12. CASE ResetAllProxy
  BY <1>12 DEF ResetAllProxy, DueInv, NeverEarly
<1>13. CASE Tick
  <2>1. boot \in Nat /\ boot' = boot + 1 /\ called' = {} /\ lpc' = lpc /\ now' = now
        /\ popped' = popped /\ triggerList' = triggerList /\ proxyMap' = proxyMap
    BY <1>0, <1>13 DEF Tick, TypeOK
  <2>2. \A x \in Int : x <= boot => x <= boot + 1
    BY <2>1
  <2>3. lpc \in {"changed", "rebatch", "trigger", "pop", "deliver"} => now \in Int
    BY <1>0 DEF ControlOK
  <2>4. \A u \in Uids : \A a \in proxyMap[u] : a.whenElapsed \in Int
    BY <1>0, AlarmFields DEF TypeOK
  <2> QED BY <2>1, <2>2, <2>3, <2>4 DEF DueInv, NeverEarly
<1> QED
  BY <1>1, <1>2, <1>3, <1>4, <1>5, <1>6, <1>7, <1>8, <1>9, <1>10, <1>11, <1>12, <1>13
  DEF Next, ApiStep, LooperStep, Proxy, Environment

\* NeverEarly holds in every reachable state: whatever batch an alarm was put
\* in, however the clocks moved and whether a proxy held it, its callback does
\* not run before the elapsed time it was scheduled for.
THEOREM CallbacksAreNeverEarly == Spec => []NeverEarly
<1>1. Init => DueInv
  BY DEF Init, DueInv, NeverEarly
<1>2. DueInv => NeverEarly
  BY DEF DueInv
<1> QED BY <1>1, <1>2, TypeInit, TypeStep, DueStep, PTL DEF Spec

-----------------------------------------------------------------------------
(* Proxies *)

\* Every action keeps held alarms to the uids that are proxied.
LEMMA ProxyStep == TypeInv /\ ProxyInv /\ [Next]_vars => ProxyInv'
<1> SUFFICES ASSUME TypeInv, ProxyInv, [Next]_vars PROVE ProxyInv'
  OBVIOUS
<1> USE DEF clockVars, callVars, readdVars, looperVars, proxyVars, ghostVars
<1>0. TypeOK /\ ControlOK
  BY DEF TypeInv
<1>Q. ASSUME UNCHANGED <<proxyUids, proxyMap>>, called' \in {called, {}} PROVE ProxyInv'
  BY <1>Q DEF ProxyInv, ProxyHolds
<1>1. CASE Client \/ CommitTimer \/ RemoveLocked \/ RemoveDone \/ ReAddTimerLocked
           \/ ReBatchDone \/ Environment \/ UNCHANGED vars
  BY <1>1, <1>Q
  DEF Client, CreateTimer, StartTimer, StopTimerInner, CommitTimer, RemoveLocked, RemoveDone,
      ReAddTimerLocked, ReBatchDone, Environment, Tick, Interrupted, SetTime, vars
<1>2. CASE EpollWait \/ (\E f \in Events : ReadFd(f)) \/ SampleRtc \/ SampleElapsed \/ TimeChanged
           \/ BeginTrigger \/ PopBatch \/ TriggerTimersLocked \/ DeliverDone
  BY <1>2, <1>Q
  DEF EpollWait, ReadFd, SampleRtc, SampleElapsed, TimeChanged, BeginTrigger, PopBatch,
      TriggerTimersLocked, DeliverDone
<1>3. CASE RemoveProxy
  <2>1. entries[call.id].uid \in Uids
    BY <1>0, <1>3, ConstantsAssumption DEF ControlOK, RemoveProxy
  <2>2. \A u \in Uids : proxyMap'[u] \subseteq proxyMap[u]
    BY <1>0, <1>3, <2>1 DEF RemoveProxy, Erased, TypeOK
  <2>3. proxyUids' = proxyUids /\ called' = {}
    BY <1>3 DEF RemoveProxy
  <2> QED BY <2>2, <2>3 DEF ProxyInv, ProxyHolds
<1>4. CASE DeliverTimersLocked
  <2>1. PICK a \in triggerList :
          IF IsProxied(a)
          THEN /\ proxyMap' = [proxyMap EXCEPT ![a.prof.uid] = @ \cup {a}]
               /\ called' = {}
          ELSE /\ called' = {a}
               /\ UNCHANGED proxyMap
    BY <1>4 DEF DeliverTimersLocked, NextOf
  <2>2. proxyUids' = proxyUids
    BY <1>4 DEF DeliverTimersLocked
  <2>3. CASE IsProxied(a)
    <3>1. a.prof.uid \in proxyUids
      BY <2>3 DEF IsProxied
    <3>2. \A u \in Uids : proxyMap'[u] = IF u = a.prof.uid THEN proxyMap[u] \cup {a}
                                         ELSE proxyMap[u]
      BY <2>1, <2>3, <1>0 DEF TypeOK
    <3>3. called' = {}
      BY <2>1, <2>3
    <3> HIDE <2>1
    <3>5. \A u \in Uids : \A x \in proxyMap'[u] : x.prof.uid = u
      <4> SUFFICES ASSUME NEW u \in Uids, NEW x \in proxyMap'[u] PROVE x.prof.uid = u
        OBVIOUS
      <4>1. x \in proxyMap[u] \/ (x = a /\ u = a.prof.uid)
        BY <3>2
      <4> QED BY <4>1 DEF ProxyInv
    <3>6. \A u \in Uids : proxyMap'[u] # {} => u \in proxyUids
      <4> SUFFICES ASSUME NEW u \in Uids, proxyMap'[u] # {}, u # a.prof.uid
                   PROVE  u \in proxyUids
        BY <3>1
      <4>1. proxyMap[u] # {}
        BY <3>2
      <4> QED BY <4>1 DEF ProxyInv, ProxyHolds
    <3> QED BY <3>3, <3>5, <3>6, <2>2 DEF ProxyInv, ProxyHolds
  <2>4. CASE ~IsProxied(a)
    BY <2>1, <2>2, <2>4 DEF ProxyInv, ProxyHolds, IsProxied
  <2> QED BY <2>3, <2>4
<1>5. ASSUME NEW uid \in Proxied, ProxyTimerOn(uid) PROVE ProxyInv'
  BY <1>5 DEF ProxyTimerOn, ProxyInv, ProxyHolds
<1>6. ASSUME NEW uid \in Proxied, NEW needRetrigger \in BOOLEAN,
             ProxyTimerOff(uid, needRetrigger)
      PROVE  ProxyInv'
  <2>1. uid \in Uids
    BY ConstantsAssumption
  <2>2. \A u \in Uids : proxyMap'[u] = IF u = uid THEN {} ELSE proxyMap[u]
    BY <1>0, <1>6, <2>1 DEF ProxyTimerOff, Erased, TypeOK
  <2>3. called' \subseteq proxyMap[uid] /\ proxyUids' = proxyUids \ {uid}
    BY <1>6 DEF ProxyTimerOff
  <2> QED BY <2>1, <2>2, <2>3 DEF ProxyInv, ProxyHolds
<1>7. CASE ResetAllProxy
  BY <1>7 DEF ResetAllProxy, ProxyInv, ProxyHolds
<1> QED
  BY <1>1, <1>2, <1>3, <1>4, <1>5, <1>6, <1>7
  DEF Next, ApiStep, LooperStep, Proxy

\* ProxyHolds in every reachable state: between ProxyTimer(uid, true) and the
\* call that lifts the proxy no callback of the uid runs, and nothing is held
\* for a uid that is not proxied, where no later call would find it.
THEOREM ProxiesHold == Spec => []ProxyHolds
<1>1. Init => ProxyInv
  BY DEF Init, ProxyInv, ProxyHolds
<1>2. ProxyInv => ProxyHolds
  BY DEF ProxyInv
<1> QED BY <1>1, <1>2, TypeInit, TypeStep, ProxyStep, PTL DEF Spec
=============================================================================
