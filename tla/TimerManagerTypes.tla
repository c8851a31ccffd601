------------------------- MODULE TimerManagerTypes --------------------------
(***************************************************************************)
(* Typing of TimerManager for every value of its constants, and the two    *)
(* theorems that follow from it: the type invariant and the summaries of   *)
(* the batches.                                                            *)
(***************************************************************************)
EXTENDS BatchProofs

-----------------------------------------------------------------------------
(* Typing: the state of the two threads and the lock that separates them   *)

\* Who holds mutex_, and what each thread has at hand at each of its points.
ControlOK ==
    /\ mutex = "api" <=> apc \in {"remove", "rebatch"}
    /\ mutex = "looper" <=> lpc \in {"rebatch", "pop", "deliver"}
    /\ lpc \in {"sampled", "changed"} => nowRtc \in Int
    /\ lpc \in {"changed", "rebatch", "trigger", "pop", "deliver"} => now \in Int
    /\ apc = "rebatch" \/ lpc = "rebatch" => readdNow \in Int
    /\ apc # "rebatch" /\ lpc # "rebatch" => readd = <<>>
    /\ apc \in {"remove", "rebatch", "unproxy"} => call.id \in Ids /\ entries[call.id] \in Profiles
    /\ call.pos >= 1
    /\ apc # "commit" => pending = {}
    /\ lpc # "pop" => popped = {}
    /\ lpc \notin {"pop", "deliver"} => triggerList = {}

TypeInv == TypeOK /\ ControlOK /\ AllWellFormed(batches)

\* The alarm SetHandler builds is an alarm of the timer.
LEMMA NewAlarmType ==
    ASSUME TypeOK, NEW id \in Ids, NEW prof \in Profiles, NEW when \in Int,
           NEW si \in BOOLEAN, NEW sf \in BOOLEAN
    PROVE  NewAlarm(id, prof, when, si, sf) \in Alarm /\ NewAlarm(id, prof, when, si, sf).id = id
<1> DEFINE window   == ClampWindow(prof.window)
           interval == ClampInterval(prof.interval,
                           IF si THEN MinIntervalSystem ELSE MinIntervalApp)
           nominal  == ConvertToElapsed(when, prof.rtc)
           earliest == boot + (IF sf THEN 0 ELSE MinFuturity)
           trigger  == IF nominal > earliest THEN nominal ELSE earliest
           max      == IF window >= 0 THEN trigger + window
                       ELSE MaxTriggerTime(nominal, trigger, interval)
<1>1. prof.window \in Int /\ prof.interval \in Nat
  BY ConstantsAssumption
<1>2. window \in Int
  BY <1>1, ConstantsAssumption DEF ClampWindow
<1>3. interval \in Nat
  BY <1>1, ConstantsAssumption DEF ClampInterval
<1>4. nominal \in Int /\ earliest \in Int
  BY ConstantsAssumption DEF ConvertToElapsed, TypeOK
<1> HIDE DEF window, interval, nominal, earliest
<1>5. trigger \in Int
  BY <1>4
<1> HIDE DEF trigger
<1>6. max \in Int
  BY <1>2, <1>3, <1>4, <1>5, MaxTriggerTimeType
<1> HIDE DEF max
<1>7. made \in Nat /\ max - trigger \in Int
  BY <1>5, <1>6 DEF TypeOK
<1>8. NewAlarm(id, prof, when, si, sf)
      = TimerInfo(made, id, prof, when, trigger, max - trigger, max, interval)
  BY DEF NewAlarm, max, trigger, earliest, nominal, interval, window
<1> QED BY <1>3, <1>5, <1>6, <1>7, <1>8, TimerInfoType

\* An alarm that is re-added is an alarm of the same timer.
LEMMA RecomputedType ==
    ASSUME TypeOK, readdNow \in Int, NEW a \in Alarm
    PROVE  /\ Recomputed(a) \in Alarm /\ Recomputed(a).id = a.id
           /\ Recomputed(a).ref = a.ref
<1> DEFINE we == ConvertToElapsed(a.when, a.prof.rtc)
           mx == IF a.window >= 0 THEN we + a.window
                 ELSE MaxTriggerTime(readdNow, we, a.interval)
<1>1. we \in Int
  BY AlarmFields DEF ConvertToElapsed, TypeOK
<1> HIDE DEF we
<1>0. a.window \in Int /\ a.interval \in Nat
  BY AlarmFields
<1>2. mx \in Int
  <2>1. MaxTriggerTime(readdNow, we, a.interval) \in Int
    BY <1>0, <1>1, MaxTriggerTimeType
  <2> QED BY <2>1, <1>0, <1>1
<1> HIDE DEF mx
<1>3. Recomputed(a) = [a EXCEPT !.whenElapsed = we, !.maxWhenElapsed = mx]
  BY DEF Recomputed, we, mx
<1> QED BY <1>1, <1>2, <1>3 DEF Alarm

\* The alarm for the next period is an alarm of the same timer.
LEMMA NextPeriodType ==
    ASSUME TypeOK, now \in Int, NEW a \in Alarm, a.interval > 0
    PROVE  NextPeriod(a) \in Alarm /\ NextPeriod(a).id = a.id
<1> DEFINE delta == (1 + TruncDiv(now - a.expected, a.interval)) * a.interval
           next  == a.whenElapsed + delta
           mx    == MaxTriggerTime(now, next, a.interval)
<1>1. /\ a.whenElapsed \in Int /\ a.when \in Int /\ a.expected \in Int /\ a.window \in Int
      /\ a.interval \in Nat /\ a.id \in Ids /\ a.prof \in Profiles
  BY AlarmFields
<1>2. \A n \in Int, d \in Nat : d > 0 => n \div d \in Int
  OBVIOUS
<1>3. TruncDiv(now - a.expected, a.interval) \in Int
  BY <1>1, <1>2 DEF TruncDiv
<1>4. delta \in Int
  BY <1>1, <1>3
<1> HIDE DEF delta
<1>5. next \in Int /\ a.when + delta \in Int
  BY <1>1, <1>4
<1> HIDE DEF next
<1>6. mx \in Int
  BY <1>1, <1>5, MaxTriggerTimeType
<1> HIDE DEF mx
<1>7. made \in Nat
  BY DEF TypeOK
<1>8. NextPeriod(a) = TimerInfo(made, a.id, a.prof, a.when + delta, next, a.window, mx, a.interval)
  BY DEF NextPeriod, mx, next, delta
<1> QED BY <1>1, <1>5, <1>6, <1>7, <1>8, TimerInfoType

\* What is left of the list that is being re-added.
LEMMA DropFirstProperties ==
    ASSUME NEW list \in Seq(BatchType), list # <<>>, NEW a \in list[1].alarms
    PROVE  /\ a \in Alarm
           /\ DropFirst(list, a) \in Seq(BatchType)
           /\ AlarmsOf(DropFirst(list, a)) \subseteq AlarmsOf(list)
<1> DEFINE r == DropFirst(list, a)
<1>1. Len(list) \in Nat /\ Len(list) >= 1 /\ list[1] \in BatchType
  BY EmptySeq, LenProperties
<1>2. list[1].alarms \in SUBSET Alarm
  BY <1>1, BatchFields
<1>3. CASE list[1].alarms = {a}
  <2>1. r = Tail(list)
    BY <1>3 DEF DropFirst
  <2>2. r \in Seq(BatchType) /\ Len(r) = Len(list) - 1
        /\ \A i \in 1 .. Len(list) - 1 : r[i] = list[i + 1]
    BY <2>1, <1>1, HeadTailProperties
  <2> HIDE DEF r
  <2>3. ASSUME NEW c \in AlarmsOf(r) PROVE c \in AlarmsOf(list)
    <3>1. PICK i \in 1 .. Len(r) : c \in r[i].alarms
      BY <2>3, InAlarmsOf
    <3>2. i + 1 \in 1 .. Len(list) /\ c \in list[i + 1].alarms
      BY <3>1, <2>2, <1>1
    <3> QED BY <3>2, InAlarmsOf
  <2> QED BY <2>2, <2>3, <1>2 DEF r
<1>4. CASE list[1].alarms # {a}
  <2> DEFINE b == [list[1] EXCEPT !.alarms = @ \ {a}]
  <2>1. b \in BatchType /\ b.alarms = list[1].alarms \ {a}
    BY <1>1, <1>2 DEF BatchType
  <2>2. r = [list EXCEPT ![1] = b]
    BY <1>4 DEF DropFirst
  <2> HIDE DEF b, r
  <2>3. r \in Seq(BatchType) /\ Len(r) = Len(list)
        /\ \A i \in 1 .. Len(list) : r[i] = IF i = 1 THEN b ELSE list[i]
    BY <2>1, <2>2, <1>1
  <2>4. ASSUME NEW c \in AlarmsOf(r) PROVE c \in AlarmsOf(list)
    <3>1. PICK i \in 1 .. Len(list) : c \in r[i].alarms
      BY <2>4, <2>3, InAlarmsOf
    <3>2. c \in list[i].alarms
      BY <3>1, <2>1, <2>3
    <3> QED BY <3>2, InAlarmsOf
  <2> QED BY <2>3, <2>4, <1>2 DEF r
<1> QED BY <1>3, <1>4

\* The batch TriggerTimersLocked erases.
LEMMA TailProperties ==
    ASSUME NEW list \in Seq(BatchType), list # <<>>, AllWellFormed(list)
    PROVE  /\ list[1] \in BatchType /\ WellFormed(list[1])
           /\ Tail(list) \in Seq(BatchType)
           /\ AllWellFormed(Tail(list))
           /\ AlarmsOf(Tail(list)) \cup list[1].alarms = AlarmsOf(list)
<1> DEFINE r == Tail(list)
<1>1. Len(list) \in Nat /\ Len(list) >= 1 /\ list[1] \in BatchType
  BY EmptySeq, LenProperties
<1>2. r \in Seq(BatchType) /\ Len(r) = Len(list) - 1
      /\ \A i \in 1 .. Len(list) - 1 : r[i] = list[i + 1]
  BY <1>1, HeadTailProperties
<1> HIDE DEF r
<1>3. AllWellFormed(r) /\ WellFormed(list[1])
  BY <1>1, <1>2 DEF AllWellFormed
<1>4. ASSUME NEW c \in AlarmsOf(r) PROVE c \in AlarmsOf(list)
  <2>1. PICK i \in 1 .. Len(r) : c \in r[i].alarms
    BY <1>4, InAlarmsOf
  <2>2. i + 1 \in 1 .. Len(list) /\ c \in list[i + 1].alarms
    BY <2>1, <1>2, <1>1
  <2> QED BY <2>2, InAlarmsOf
<1>5. ASSUME NEW c \in AlarmsOf(list), c \notin list[1].alarms PROVE c \in AlarmsOf(r)
  <2>1. PICK i \in 1 .. Len(list) : c \in list[i].alarms
    BY <1>5, InAlarmsOf
  <2>2. i # 1 /\ i - 1 \in 1 .. Len(list) - 1 /\ (i - 1) + 1 = i
    BY <2>1, <1>5, <1>1
  <2>3. r[i - 1] = list[(i - 1) + 1]
    BY <2>2, <1>2
  <2>4. i - 1 \in 1 .. Len(r) /\ c \in r[i - 1].alarms
    BY <2>1, <2>2, <2>3, <1>2
  <2> QED BY <2>4, InAlarmsOf
<1>6. ASSUME NEW c \in list[1].alarms PROVE c \in AlarmsOf(list)
  BY <1>1, InAlarmsOf
<1> QED BY <1>1, <1>2, <1>3, <1>4, <1>5, <1>6 DEF r

\* SetHandlerLocked keeps the list well formed and adds the alarm to it.
LEMMA SetHandlerProperties ==
    ASSUME TypeOK, AllWellFormed(batches), NEW a \in Alarm, SetHandlerLocked(a)
    PROVE  /\ batches' \in Seq(BatchType) /\ AllWellFormed(batches')
           /\ AlarmsOf(batches') = AlarmsOf(batches) \cup {a}
           /\ fd' \in [Fds -> Int \cup {None}]
<1>1. batches' \in InsertAndBatchTimerLocked(batches, a)
      /\ fd' = RescheduleKernelTimerLocked(batches')
  BY DEF SetHandlerLocked
<1>2. batches \in Seq(BatchType) /\ fd \in [Fds -> Int \cup {None}]
  BY DEF TypeOK
<1>3. /\ batches' \in Seq(BatchType) /\ AllWellFormed(batches')
      /\ AlarmsOf(batches') = AlarmsOf(batches) \cup {a}
  BY <1>1, <1>2, InsertProperties
<1> QED BY <1>1, <1>2, <1>3, RescheduleType

\* One turn of RemoveLocked keeps the list well formed.
LEMMA RemoveLockedProperties ==
    ASSUME TypeInv, RemoveLocked
    PROVE  /\ batches' \in Seq(BatchType) /\ AllWellFormed(batches')
           /\ call' \in [id : Ids \cup {None}, destroy : BOOLEAN, pos : Nat, did : BOOLEAN]
           /\ call'.id = call.id /\ call'.pos >= 1
           /\ AlarmsOf(batches') \subseteq AlarmsOf(batches)
           /\ \A i \in 1 .. Len(batches') : i < call'.pos =>
                 \/ i < call.pos /\ i \in 1 .. Len(batches) /\ batches'[i] = batches[i]
                 \/ \A a \in batches'[i].alarms : a.id # call.id
<1> DEFINE b    == batches[call.pos]
           kept == BatchRemove(b, call.id)
           did  == kept.alarms # b.alarms
<1>1. /\ batches \in Seq(BatchType) /\ AllWellFormed(batches)
      /\ call \in [id : Ids \cup {None}, destroy : BOOLEAN, pos : Nat, did : BOOLEAN]
      /\ call.pos \in 1 .. Len(batches) /\ Len(batches) \in Nat
  BY DEF TypeInv, TypeOK, ControlOK, RemoveLocked
<1>2. b \in BatchType /\ WellFormed(b)
  BY <1>1 DEF AllWellFormed
<1>3. /\ kept \in BatchType
      /\ kept.alarms = {a \in b.alarms : a.id # call.id}
      /\ kept.alarms # {} => WellFormed(kept)
  BY <1>2, BatchRemoveProperties
<1>4. IF kept.alarms = {}
      THEN /\ batches' = RemoveAt(batches, call.pos)
           /\ call' = [call EXCEPT !.did = did]
      ELSE /\ batches' = [batches EXCEPT ![call.pos] = kept]
           /\ call' = [call EXCEPT !.did = did, !.pos = @ + 1]
  BY DEF RemoveLocked
<1>5. did \in BOOLEAN
  OBVIOUS
<1> HIDE DEF b, kept, did
<1>6. CASE kept.alarms = {}
  <2>1. batches' = RemoveAt(batches, call.pos) /\ call' = [call EXCEPT !.did = did]
    BY <1>4, <1>6
  <2>2. /\ batches' \in Seq(BatchType) /\ AllWellFormed(batches')
        /\ AlarmsOf(batches') \subseteq AlarmsOf(batches)
    BY <2>1, <1>1, EraseProperties
  <2>3. /\ call' \in [id : Ids \cup {None}, destroy : BOOLEAN, pos : Nat, did : BOOLEAN]
        /\ call'.id = call.id /\ call'.pos >= 1
    BY <2>1, <1>1, <1>5
  <2>4. call'.pos = call.pos
    BY <2>1, <1>1
  <2>5. ASSUME NEW i \in 1 .. Len(batches'), i < call'.pos
        PROVE  i < call.pos /\ i \in 1 .. Len(batches) /\ batches'[i] = batches[i]
    <3>1. /\ Len(batches') = Len(batches) - 1
          /\ \A j \in 1 .. Len(batches) - 1 :
                batches'[j] = IF j < call.pos THEN batches[j] ELSE batches[j + 1]
      BY <2>1, <1>1, RemoveAtProperties
    <3> QED BY <3>1, <2>4, <2>5, <1>1
  <2> QED BY <2>2, <2>3, <2>5
<1>7. CASE kept.alarms # {}
  <2>1. /\ batches' = [batches EXCEPT ![call.pos] = kept]
        /\ call' = [call EXCEPT !.did = did, !.pos = @ + 1]
    BY <1>4, <1>7
  <2>2. /\ batches' \in Seq(BatchType) /\ Len(batches') = Len(batches)
        /\ \A i \in 1 .. Len(batches) :
              batches'[i] = IF i = call.pos THEN kept ELSE batches[i]
    BY <2>1, <1>1, <1>3
  <2>3. AllWellFormed(batches')
    BY <2>2, <1>1, <1>3, <1>7 DEF AllWellFormed
  <2>4. ASSUME NEW c \in AlarmsOf(batches') PROVE c \in AlarmsOf(batches)
    <3>1. PICK i \in 1 .. Len(batches) : c \in batches'[i].alarms
      BY <2>4, <2>2, InAlarmsOf
    <3>2. c \in batches[i].alarms
      BY <3>1, <2>2, <1>3 DEF b
    <3> QED BY <3>2, InAlarmsOf
  <2>5. /\ call' \in [id : Ids \cup {None}, destroy : BOOLEAN, pos : Nat, did : BOOLEAN]
        /\ call'.id = call.id /\ call'.pos >= 1
    <3>1. call.pos \in Nat /\ call.pos >= 1 /\ call.pos + 1 \in Nat /\ call.pos + 1 >= 1
      BY <1>1
    <3>2. call' = [id |-> call.id, destroy |-> call.destroy, pos |-> call.pos + 1, did |-> did]
      BY <2>1, <1>1
    <3> QED BY <3>1, <3>2, <1>1, <1>5
  <2>6. ASSUME NEW i \in 1 .. Len(batches'), i < call'.pos
        PROVE  \/ i < call.pos /\ i \in 1 .. Len(batches) /\ batches'[i] = batches[i]
               \/ \A a \in batches'[i].alarms : a.id # call.id
    <3>1. call'.pos = call.pos + 1
      BY <2>1, <1>1
    <3>2. i < call.pos \/ i = call.pos
      BY <3>1, <2>6, <1>1
    <3> QED BY <3>2, <2>2, <1>3
  <2> QED BY <2>2, <2>3, <2>4, <2>5, <2>6
<1> QED BY <1>6, <1>7

\* The initial state is typed.
LEMMA TypeInit == Init => TypeInv
<1> SUFFICES ASSUME Init PROVE TypeInv
  OBVIOUS
<1>1. TypeOK
  <2>1. boot \in Nat /\ rtcOff \in Int /\ clockSet \in BOOLEAN
    BY ConstantsAssumption DEF Init
  <2>2. /\ fd \in [Fds -> Int \cup {None}]
        /\ entries \in [Ids -> Profiles \cup {None, Gone}]
        /\ proxyMap \in [Uids -> SUBSET Alarm]
    BY DEF Init
  <2>3. call \in [id : Ids \cup {None}, destroy : BOOLEAN, pos : Nat, did : BOOLEAN]
    BY DEF Init, NoCall
  <2>4. batches \in Seq(BatchType) /\ readd \in Seq(BatchType)
    BY DEF Init
  <2> QED BY <2>1, <2>2, <2>3, <2>4 DEF Init, TypeOK
<1>2. ControlOK
  BY DEF Init, ControlOK, NoCall
<1>3. AllWellFormed(batches)
  BY DEF Init, AllWellFormed
<1> QED BY <1>1, <1>2, <1>3 DEF TypeInv

\* Every step of every thread keeps the state typed and the lock discipline.
LEMMA TypeStep == TypeInv /\ [Next]_vars => TypeInv'
<1> SUFFICES ASSUME TypeInv, [Next]_vars PROVE TypeInv'
  OBVIOUS
<1> USE DEF clockVars, callVars, readdVars, looperVars, proxyVars, ghostVars
<1>0. TypeOK /\ ControlOK /\ AllWellFormed(batches)
  BY DEF TypeInv
<1> DEFINE TypeInvP == TypeOK' /\ ControlOK' /\ AllWellFormed(batches)'
<1> SUFFICES TypeInvP
  BY DEF TypeInv
<1>1. ASSUME NEW id \in Ids, NEW prof \in Profiles, CreateTimer(id, prof) PROVE TypeInvP
  <2>1. TypeOK'
    BY <1>0, <1>1 DEF TypeOK, CreateTimer
  <2>2. ControlOK'
    BY <1>0, <1>1 DEF ControlOK, CreateTimer, TypeOK
  <2> QED BY <2>1, <2>2, <1>0, <1>1 DEF CreateTimer, AllWellFormed
<1>2. ASSUME NEW id \in Ids, NEW delay \in Delays, StartTimer(id, delay) PROVE TypeInvP
  <2> DEFINE prof == entries[id]
             when == delay + boot + (IF prof.rtc THEN rtcOff ELSE 0)
  <2>1. prof \in Profiles /\ when \in Int
    BY <1>0, <1>2, ConstantsAssumption DEF TypeOK, StartTimer
  <2> HIDE DEF when
  <2>2. CASE ConvertToElapsed(when, prof.rtc) < boot
    <3>1. UNCHANGED <<apc, pending, made>>
      BY <1>2, <2>2 DEF StartTimer, when
    <3>2. TypeOK'
      BY <1>0, <1>2, <3>1 DEF StartTimer, TypeOK
    <3>3. ControlOK'
      BY <1>0, <1>2, <3>1 DEF StartTimer, ControlOK
    <3> QED BY <3>2, <3>3, <1>0, <1>2 DEF StartTimer, AllWellFormed
  <2>3. CASE ~(ConvertToElapsed(when, prof.rtc) < boot)
    <3>1. PICK si \in IsSystemUid(prof.uid), sf \in IsSystemUid(prof.uid) :
             /\ pending' = {NewAlarm(id, prof, when, si, sf)}
             /\ apc' = "commit"
             /\ made' = made + 1
      BY <1>2, <2>3 DEF StartTimer, when
    <3>2. si \in BOOLEAN /\ sf \in BOOLEAN
      BY DEF IsSystemUid
    <3>3. pending' \in SUBSET Alarm
      BY <3>1, <3>2, <2>1, <1>0, NewAlarmType
    <3>4. TypeOK'
      BY <1>0, <1>2, <3>1, <3>3 DEF StartTimer, TypeOK
    <3>5. ControlOK'
      BY <1>0, <1>2, <3>1 DEF StartTimer, ControlOK, TypeOK
    <3> QED BY <3>4, <3>5, <1>0, <1>2 DEF StartTimer, AllWellFormed
  <2> QED BY <2>2, <2>3
<1>3. ASSUME NEW id \in Ids, NEW needDestroy \in BOOLEAN, StopTimerInner(id, needDestroy)
      PROVE  TypeInvP
  <2>1. TypeOK'
    BY <1>0, <1>3 DEF TypeOK, StopTimerInner
  <2>2. ControlOK'
    BY <1>0, <1>3 DEF ControlOK, StopTimerInner, TypeOK
  <2> QED BY <2>1, <2>2, <1>0, <1>3 DEF StopTimerInner, AllWellFormed
<1>4. CASE CommitTimer
  <2>1. PICK a \in pending : SetHandlerLocked(a)
    BY <1>4 DEF CommitTimer
  <2>2. /\ batches' \in Seq(BatchType) /\ AllWellFormed(batches')
        /\ fd' \in [Fds -> Int \cup {None}]
    <3>1. a \in Alarm
      BY <1>0, <2>1 DEF TypeOK
    <3> QED BY <3>1, <2>1, <1>0, SetHandlerProperties
  <2>3. TypeOK'
    BY <1>0, <1>4, <2>2 DEF CommitTimer, TypeOK
  <2>4. ControlOK'
    BY <1>0, <1>4 DEF CommitTimer, ControlOK, TypeOK
  <2> QED BY <2>2, <2>3, <2>4
<1>5. CASE RemoveLocked
  <2>1. /\ batches' \in Seq(BatchType) /\ AllWellFormed(batches')
        /\ call' \in [id : Ids \cup {None}, destroy : BOOLEAN, pos : Nat, did : BOOLEAN]
        /\ call'.id = call.id /\ call'.pos >= 1
    BY <1>5, RemoveLockedProperties
  <2>2. TypeOK'
    BY <1>0, <1>5, <2>1 DEF RemoveLocked, TypeOK
  <2>3. ControlOK'
    BY <1>0, <1>5, <2>1 DEF RemoveLocked, ControlOK, TypeOK
  <2> QED BY <2>1, <2>2, <2>3
<1>6. CASE RemoveDone
  <2>1. CASE call.did
    <3>1. TypeOK'
      BY <1>0, <1>6, <2>1 DEF RemoveDone, BeginReBatch, TypeOK
    <3>2. ControlOK'
      BY <1>0, <1>6, <2>1 DEF RemoveDone, BeginReBatch, ControlOK, TypeOK
    <3>3. AllWellFormed(batches')
      BY <1>6, <2>1 DEF RemoveDone, BeginReBatch, AllWellFormed
    <3> QED BY <3>1, <3>2, <3>3
  <2>2. CASE ~call.did
    <3>1. TypeOK'
      BY <1>0, <1>6, <2>2 DEF RemoveDone, TypeOK
    <3>2. ControlOK'
      BY <1>0, <1>6, <2>2 DEF RemoveDone, ControlOK, TypeOK
    <3> QED BY <3>1, <3>2, <2>2, <1>0, <1>6 DEF RemoveDone, AllWellFormed
  <2> QED BY <2>1, <2>2
<1>7. CASE RemoveProxy
  <2>1. call.id \in Ids /\ entries[call.id] \in Profiles /\ entries[call.id].uid \in Uids
    BY <1>0, <1>7, ConstantsAssumption DEF ControlOK, RemoveProxy
  <2>2. proxyMap' \in [Uids -> SUBSET Alarm]
    BY <1>0, <1>7, <2>1 DEF RemoveProxy, Erased, TypeOK
  <2>3. entries' \in [Ids -> Profiles \cup {None, Gone}]
    BY <1>0, <1>7 DEF RemoveProxy, TypeOK
  <2>4. TypeOK'
    BY <1>0, <1>7, <2>2, <2>3 DEF RemoveProxy, NoCall, TypeOK
  <2>5. ControlOK'
    BY <1>0, <1>7 DEF RemoveProxy, NoCall, ControlOK, TypeOK
  <2> QED BY <2>4, <2>5, <1>0, <1>7 DEF RemoveProxy, AllWellFormed
<1>8. CASE ReAddTimerLocked
  <2>1. PICK a \in NextOf(readd[1].alarms) :
          /\ readd' = DropFirst(readd, a)
          /\ IF ConvertToElapsed(a.when, a.prof.rtc) < readdNow
             THEN UNCHANGED batches
             ELSE batches' \in InsertAndBatchTimerLocked(batches, Recomputed(a))
    BY <1>8 DEF ReAddTimerLocked
  <2>2. readd \in Seq(BatchType) /\ readd # <<>> /\ batches \in Seq(BatchType) /\ readdNow \in Int
    BY <1>0, <1>8 DEF TypeOK, ControlOK, ReAddTimerLocked
  <2>3. a \in readd[1].alarms
    BY <2>1 DEF NextOf
  <2>4. a \in Alarm /\ readd' \in Seq(BatchType)
    BY <2>1, <2>2, <2>3, DropFirstProperties
  <2>5. batches' \in Seq(BatchType) /\ AllWellFormed(batches')
    <3>1. CASE ConvertToElapsed(a.when, a.prof.rtc) < readdNow
      BY <3>1, <2>1, <2>2, <1>0 DEF AllWellFormed
    <3>2. CASE ~(ConvertToElapsed(a.when, a.prof.rtc) < readdNow)
      <4>1. Recomputed(a) \in Alarm
        BY <2>2, <2>4, <1>0, RecomputedType
      <4> QED BY <3>2, <4>1, <2>1, <2>2, <1>0, InsertProperties
    <3> QED BY <3>1, <3>2
  <2>6. TypeOK'
    BY <1>0, <1>8, <2>4, <2>5 DEF ReAddTimerLocked, TypeOK
  <2>7. ControlOK'
    BY <1>0, <1>8 DEF ReAddTimerLocked, ControlOK, TypeOK
  <2> QED BY <2>5, <2>6, <2>7
<1>9. CASE ReBatchDone /\ (apc = "rebatch" \/ lpc = "rebatch")
  <2>1. fd' \in [Fds -> Int \cup {None}]
    BY <1>0, <1>9, RescheduleType DEF ReBatchDone, TypeOK
  <2>2. TypeOK'
    BY <1>0, <1>9, <2>1 DEF ReBatchDone, TypeOK
  <2>3. ControlOK'
    BY <1>0, <1>9 DEF ReBatchDone, ControlOK, TypeOK
  <2> QED BY <2>2, <2>3, <1>0, <1>9 DEF ReBatchDone, AllWellFormed
<1>10. CASE EpollWait
  <2>1. TypeOK'
    BY <1>0, <1>10 DEF TypeOK, EpollWait
  <2>2. ControlOK'
    BY <1>0, <1>10 DEF ControlOK, EpollWait, TypeOK
  <2> QED BY <2>1, <2>2, <1>0, <1>10 DEF EpollWait, AllWellFormed
<1>11. CASE Interrupted
  <2>1. TypeOK'
    BY <1>0, <1>11 DEF TypeOK, Interrupted
  <2>2. ControlOK'
    BY <1>0, <1>11 DEF ControlOK, Interrupted, TypeOK
  <2> QED BY <2>1, <2>2, <1>0, <1>11 DEF Interrupted, AllWellFormed
<1>12. ASSUME NEW f \in Events, ReadFd(f) PROVE TypeInvP
  <2>0. fd' \in [Fds -> Int \cup {None}] /\ clockSet' \in BOOLEAN
    <3>1. CASE f = "CHANGED"
      BY <3>1, <1>0, <1>12 DEF TypeOK, ReadFd
    <3>2. CASE f # "CHANGED"
      BY <3>2, <1>0, <1>12 DEF TypeOK, ReadFd
    <3> QED BY <3>1, <3>2
  <2>1. TypeOK'
    BY <1>0, <1>12, <2>0 DEF TypeOK, ReadFd
  <2>2. ControlOK'
    BY <1>0, <1>12 DEF ControlOK, ReadFd, TypeOK
  <2> QED BY <2>1, <2>2, <1>0, <1>12 DEF ReadFd, AllWellFormed
<1>13. CASE SampleRtc \/ SampleElapsed
  <2>1. CASE SampleRtc
    <3>1. TypeOK'
      BY <1>0, <2>1 DEF TypeOK, SampleRtc
    <3>2. ControlOK'
      BY <1>0, <2>1 DEF ControlOK, SampleRtc, TypeOK
    <3> QED BY <3>1, <3>2, <1>0, <2>1 DEF SampleRtc, AllWellFormed
  <2>2. CASE SampleElapsed
    <3>1. TypeOK'
      BY <1>0, <2>2 DEF TypeOK, SampleElapsed
    <3>2. ControlOK'
      BY <1>0, <2>2 DEF ControlOK, SampleElapsed, TypeOK
    <3> QED BY <3>1, <3>2, <1>0, <2>2 DEF SampleElapsed, AllWellFormed
  <2> QED BY <1>13, <2>1, <2>2
<1>14. CASE TimeChanged
  <2>1. OffsetRead \in Int
    BY <1>0, <1>14 DEF ControlOK, TimeChanged, OffsetRead
  <2>2. CASE ClockMoved
    <3>1. TypeOK'
      BY <1>0, <1>14, <2>1, <2>2 DEF TimeChanged, BeginReBatch, TypeOK
    <3>2. ControlOK'
      BY <1>0, <1>14, <2>2 DEF TimeChanged, BeginReBatch, ControlOK, TypeOK
    <3>3. AllWellFormed(batches')
      BY <1>14, <2>2 DEF TimeChanged, BeginReBatch, AllWellFormed
    <3> QED BY <3>1, <3>2, <3>3
  <2>3. CASE ~ClockMoved
    <3>1. TypeOK'
      BY <1>0, <1>14, <2>3 DEF TimeChanged, TypeOK
    <3>2. ControlOK'
      BY <1>0, <1>14, <2>3 DEF TimeChanged, ControlOK, TypeOK
    <3> QED BY <3>1, <3>2, <2>3, <1>0, <1>14 DEF TimeChanged, AllWellFormed
  <2> QED BY <2>2, <2>3
<1>15. CASE BeginTrigger
  <2>1. RescheduleKernelTimerLocked(batches) \in [Fds -> Int \cup {None}]
    BY <1>0, RescheduleType DEF TypeOK
  <2>2. TypeOK'
    BY <1>0, <1>15, <2>1 DEF BeginTrigger, TypeOK
  <2>3. ControlOK'
    BY <1>0, <1>15 DEF BeginTrigger, ControlOK, TypeOK
  <2> QED BY <2>2, <2>3, <1>0, <1>15 DEF BeginTrigger, AllWellFormed
<1>16. CASE PopBatch
  <2>1. CASE HeadIsDue
    <3>1. batches # <<>> /\ batches \in Seq(BatchType)
      BY <1>0, <2>1 DEF HeadIsDue, TypeOK
    <3>2. batches' = Tail(batches) /\ popped' = batches[1].alarms /\ lpc' = lpc
      BY <1>16, <2>1 DEF PopBatch
    <3>3. batches' \in Seq(BatchType) /\ AllWellFormed(batches') /\ popped' \in SUBSET Alarm
      BY <3>1, <3>2, <1>0, TailProperties, BatchFields
    <3>4. TypeOK'
      BY <1>0, <1>16, <3>2, <3>3 DEF PopBatch, TypeOK
    <3>5. ControlOK'
      BY <1>0, <1>16, <3>2 DEF PopBatch, ControlOK, TypeOK
    <3> QED BY <3>3, <3>4, <3>5
  <2>2. CASE ~HeadIsDue
    <3>1. TypeOK'
      BY <1>0, <1>16, <2>2 DEF PopBatch, TypeOK
    <3>2. ControlOK'
      BY <1>0, <1>16, <2>2 DEF PopBatch, ControlOK, TypeOK
    <3> QED BY <3>1, <3>2, <2>2, <1>0, <1>16 DEF PopBatch, AllWellFormed
  <2> QED BY <2>1, <2>2
<1>17. CASE TriggerTimersLocked
  <2>1. PICK a \in NextOf(popped) :
          /\ popped' = popped \ {a}
          /\ triggerList' = triggerList \cup {a}
          /\ IF a.interval > 0
             THEN SetHandlerLocked(NextPeriod(a)) /\ made' = made + 1
             ELSE UNCHANGED <<batches, fd, made>>
    BY <1>17 DEF TriggerTimersLocked
  <2>2. a \in Alarm /\ now \in Int
    BY <1>0, <1>17, <2>1 DEF NextOf, TypeOK, ControlOK, TriggerTimersLocked
  <2>3. /\ batches' \in Seq(BatchType) /\ AllWellFormed(batches')
        /\ fd' \in [Fds -> Int \cup {None}] /\ made' \in Nat
    <3>1. CASE a.interval > 0
      <4>1. NextPeriod(a) \in Alarm
        BY <3>1, <2>2, <1>0, NextPeriodType
      <4>2. SetHandlerLocked(NextPeriod(a)) /\ made' = made + 1
        BY <3>1, <2>1
      <4>3. made' \in Nat
        BY <4>2, <1>0 DEF TypeOK
      <4> QED BY <4>1, <4>2, <4>3, <1>0, SetHandlerProperties
    <3>2. CASE ~(a.interval > 0)
      BY <3>2, <2>1, <1>0 DEF TypeOK, AllWellFormed
    <3> QED BY <3>1, <3>2
  <2>4. TypeOK'
    BY <1>0, <1>17, <2>1, <2>2, <2>3 DEF TriggerTimersLocked, TypeOK
  <2>5. ControlOK'
    BY <1>0, <1>17, <2>1 DEF TriggerTimersLocked, ControlOK, TypeOK
  <2> QED BY <2>3, <2>4, <2>5
<1>18. CASE DeliverTimersLocked
  <2>1. PICK a \in NextOf(triggerList) :
          /\ triggerList' = triggerList \ {a}
          /\ IF IsProxied(a)
             THEN /\ proxyMap' = [proxyMap EXCEPT ![a.prof.uid] = @ \cup {a}]
                  /\ called' = {}
                  /\ UNCHANGED waiting
             ELSE /\ called' = {a}
                  /\ waiting' = waiting \ {a.id}
                  /\ UNCHANGED proxyMap
    BY <1>18 DEF DeliverTimersLocked
  <2>2. a \in Alarm /\ a.prof.uid \in Uids
    <3>1. a \in Alarm
      BY <1>0, <2>1 DEF NextOf, TypeOK
    <3> QED BY <3>1, AlarmFields
  <2>a. /\ proxyMap \in [Uids -> SUBSET Alarm]
        /\ waiting \in SUBSET Ids
    BY <1>0 DEF TypeOK
  <2>3. proxyMap' \in [Uids -> SUBSET Alarm]
    <3>1. CASE IsProxied(a)
      <4>1. proxyMap[a.prof.uid] \cup {a} \in SUBSET Alarm
        BY <2>a, <2>2
      <4>2. proxyMap' = [proxyMap EXCEPT ![a.prof.uid] = proxyMap[a.prof.uid] \cup {a}]
        BY <2>1, <3>1
      <4> QED BY <4>1, <4>2, <2>a, <2>2
    <3>2. CASE ~IsProxied(a)
      BY <2>1, <2>a, <3>2
    <3> QED BY <3>1, <3>2
  <2>4. called' \in SUBSET Alarm /\ waiting' \in SUBSET Ids
    BY <2>1, <2>2, <2>a
  <2>5. TypeOK'
    BY <1>0, <1>18, <2>1, <2>3, <2>4 DEF DeliverTimersLocked, TypeOK
  <2>6. ControlOK'
    BY <1>0, <1>18, <2>1 DEF DeliverTimersLocked, ControlOK, TypeOK
  <2> QED BY <2>5, <2>6, <1>0, <1>18 DEF DeliverTimersLocked, AllWellFormed
<1>19. CASE DeliverDone
  <2>1. RescheduleKernelTimerLocked(batches) \in [Fds -> Int \cup {None}]
    BY <1>0, RescheduleType DEF TypeOK
  <2>2. TypeOK'
    BY <1>0, <1>19, <2>1 DEF DeliverDone, TypeOK
  <2>3. ControlOK'
    BY <1>0, <1>19 DEF DeliverDone, ControlOK, TypeOK
  <2> QED BY <2>2, <2>3, <1>0, <1>19 DEF DeliverDone, AllWellFormed
<1>20. ASSUME NEW uid \in Proxied, ProxyTimerOn(uid) PROVE TypeInvP
  <2>1. TypeOK'
    BY <1>0, <1>20, ConstantsAssumption DEF TypeOK, ProxyTimerOn
  <2>2. ControlOK'
    BY <1>0, <1>20 DEF ControlOK, ProxyTimerOn, TypeOK
  <2> QED BY <2>1, <2>2, <1>0, <1>20 DEF ProxyTimerOn, AllWellFormed
<1>21. ASSUME NEW uid \in Proxied, NEW needRetrigger \in BOOLEAN,
              ProxyTimerOff(uid, needRetrigger)
       PROVE  TypeInvP
  <2>1. uid \in Uids /\ proxyMap[uid] \in SUBSET Alarm
    BY <1>0, ConstantsAssumption DEF TypeOK
  <2>2. proxyMap' \in [Uids -> SUBSET Alarm] /\ called' \in SUBSET Alarm
    BY <1>0, <1>21, <2>1 DEF ProxyTimerOff, Erased, TypeOK
  <2>3. TypeOK'
    BY <1>0, <1>21, <2>2 DEF TypeOK, ProxyTimerOff
  <2>4. ControlOK'
    BY <1>0, <1>21 DEF ControlOK, ProxyTimerOff, TypeOK
  <2> QED BY <2>3, <2>4, <1>0, <1>21 DEF ProxyTimerOff, AllWellFormed
<1>22. CASE ResetAllProxy
  <2>1. called' \in SUBSET Alarm
    BY <1>0, <1>22 DEF ResetAllProxy, TypeOK
  <2>2. TypeOK'
    BY <1>0, <1>22, <2>1 DEF TypeOK, ResetAllProxy
  <2>3. ControlOK'
    BY <1>0, <1>22 DEF ControlOK, ResetAllProxy, TypeOK
  <2> QED BY <2>2, <2>3, <1>0, <1>22 DEF ResetAllProxy, AllWellFormed
<1>23. CASE Tick
  <2>1. TypeOK'
    BY <1>0, <1>23 DEF TypeOK, Tick
  <2>2. ControlOK'
    BY <1>0, <1>23 DEF ControlOK, Tick, TypeOK
  <2> QED BY <2>1, <2>2, <1>0, <1>23 DEF Tick, AllWellFormed
<1>24. ASSUME NEW off \in Offsets, SetTime(off) PROVE TypeInvP
  <2>1. TypeOK'
    BY <1>0, <1>24, ConstantsAssumption DEF TypeOK, SetTime
  <2>2. ControlOK'
    BY <1>0, <1>24 DEF ControlOK, SetTime, TypeOK
  <2> QED BY <2>1, <2>2, <1>0, <1>24 DEF SetTime, AllWellFormed
<1>25. CASE UNCHANGED vars
  <2>1. TypeOK'
    BY <1>0, <1>25 DEF TypeOK, vars
  <2>2. ControlOK'
    BY <1>0, <1>25 DEF ControlOK, vars
  <2> QED BY <2>1, <2>2, <1>0, <1>25 DEF vars, AllWellFormed
<1> HIDE DEF TypeInvP
<1> QED
  BY <1>1, <1>2, <1>3, <1>4, <1>5, <1>6, <1>7, <1>8, <1>9, <1>10, <1>11, <1>12,
     <1>13, <1>14, <1>15, <1>16, <1>17, <1>18, <1>19, <1>20, <1>21, <1>22, <1>23,
     <1>24, <1>25
  DEF Next, Client, ApiStep, LooperStep, Proxy, Environment

\* Every reachable state is typed; in particular the lists hold batches of
\* alarms only and no lookup by the id of a call in progress fails.
THEOREM TypeCorrect == Spec => []TypeOK
<1>1. Spec => []TypeInv
  BY TypeInit, TypeStep, PTL DEF Spec
<1>2. TypeInv => TypeOK
  BY DEF TypeInv
<1> QED BY <1>1, <1>2, PTL

\* BatchSummary holds in every reachable state: after any sequence of Add,
\* Remove and rebatching a batch starts with its latest alarm, ends with the
\* first window that closes, and is never left empty in the list.
THEOREM BatchSummaryCorrect == Spec => []BatchSummary
<1>1. Spec => []TypeInv
  BY TypeInit, TypeStep, PTL DEF Spec
<1>2. TypeInv => BatchSummary
  <2> SUFFICES ASSUME TypeInv, NEW i \in 1 .. Len(batches)
               PROVE  LET b == batches[i]
                      IN  /\ b.alarms # {}
                          /\ b.start = LatestWhen(b.alarms)
                          /\ b.end = EarliestMax(b.alarms)
                          /\ b.standalone = \E a \in b.alarms : a.prof.standalone
    BY DEF BatchSummary
  <2> DEFINE b == batches[i]
             W == {a.whenElapsed : a \in b.alarms}
             M == {a.maxWhenElapsed : a \in b.alarms}
  <2>1. b \in BatchType /\ WellFormed(b)
    BY DEF TypeInv, TypeOK, AllWellFormed
  <2>2. b.start \in Int /\ b.end \in Int /\ b.alarms \in SUBSET Alarm
    BY <2>1, BatchFields
  <2> HIDE DEF b
  <2>3. W \in SUBSET Int /\ b.start \in W /\ \A x \in W : x <= b.start
    BY <2>1, <2>2, AlarmFields DEF WellFormed
  <2>4. M \in SUBSET Int /\ b.end \in M /\ \A x \in M : b.end <= x
    BY <2>1, <2>2, AlarmFields DEF WellFormed
  <2> HIDE DEF W, M
  <2>5. Max(W) \in W /\ \A x \in W : x <= Max(W)
    BY <2>2, <2>3, MaxBounded
  <2>6. Min(M) \in M /\ \A x \in M : Min(M) <= x
    BY <2>2, <2>4, MinBounded
  <2>7. b.start = LatestWhen(b.alarms)
    <3>1. Max(W) \in Int /\ b.start <= Max(W) /\ Max(W) <= b.start
      BY <2>3, <2>5
    <3>2. b.start = Max(W)
      BY <3>1, <2>2
    <3> QED BY <3>2 DEF LatestWhen, W
  <2>8. b.end = EarliestMax(b.alarms)
    <3>1. Min(M) \in Int /\ b.end <= Min(M) /\ Min(M) <= b.end
      BY <2>4, <2>6
    <3>2. b.end = Min(M)
      BY <3>1, <2>2
    <3> QED BY <3>2 DEF EarliestMax, M
  <2> QED BY <2>1, <2>7, <2>8 DEF WellFormed, b
<1> QED BY <1>1, <1>2, PTL
=============================================================================
