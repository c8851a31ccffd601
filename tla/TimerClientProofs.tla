-------------------------- MODULE TimerClientProofs --------------------------
(***************************************************************************)
(* An application, native or with the JavaScript bindings, and the service *)
(* it calls, for every set of threads and timers and without bounds on     *)
(* calls, passes of the looper and crashes: every state is typed, no       *)
(* callback follows DestroyTimer, a dead connection is noticed, nobody     *)
(* waits for somebody who waits for them, and a native application does    *)
(* not call through a null or released proxy of its own making.            *)
(***************************************************************************)
EXTENDS SystemTimer, TLAPS

\* A call of any kind, on a timer the application knows if it is on one.
AnyCall(t) ==
    \E o \in TimerOps \cup ProxyOps \cup PlainOps, i \in known \cup {None} :
        /\ o \in {"start", "stop", "destroy"} => i \in known
        /\ Call(t, o, i)

\* The steps of a call in the service, and of the looper.
ServiceStep(t) ==
    \/ (\E results \in SUBSET BOOLEAN : op[t] \in PlainOps /\ Answer(t, results))
    \/ OnCreateTimer(t) \/ FindEntry(t)
    \/ OnStartTimer(t) \/ RemoveHandler(t) \/ RemoveProxy(t) \/ RefuseProxy(t) \/ OnTimerProxy(t)
    \/ Retrigger(t) \/ RetriggerDone(t)

\* The steps of a call in the application.
ClientStep(t) ==
    \/ AnyCall(t) \/ CheckProxy(t) \/ SecondCheck(t) \/ SendRequest(t)
    \/ InsertTimerCallbackInfo(t) \/ RemoveTimerCallbackInfo(t) \/ Return(t) \/ JsStep(t)

\* The calls, with the bindings or without, are those of the native client.
LEMMA CallsAreCalls ==
    ASSUME NEW t \in Threads, Bound(t) \/ Unbound(t) \/ JsCall(t)
    PROVE  AnyCall(t)
<1>1. ASSUME NEW o \in {"create", "proxyOn", "proxyOff", "reset", "set", "get", "network"},
             Call(t, o, None)
      PROVE  AnyCall(t)
  BY <1>1 DEF AnyCall, TimerOps, ProxyOps, PlainOps
<1>2. ASSUME NEW o \in {"start", "stop", "destroy"}, NEW i \in known, Call(t, o, i)
      PROVE  AnyCall(t)
  BY <1>2 DEF AnyCall, TimerOps
<1>3. CASE Bound(t) \/ JsCall(t)
  BY <1>1, <1>2, <1>3 DEF Bound, JsCall, JsCreateTimer, JsStartTimer, JsStopTimer, JsDestroyTimer,
     JSSystemTimeSetTime, JSSystemTimeSetTimeZone, JSSystemTimeGetTimes, JSSystemTimeGetTimeZone,
     CreateTimer, StartTimer, StopTimer, DestroyTimer, SetTime, SetTimeZone, GetTimeZone, GetTimes
<1>4. CASE Unbound(t)
  BY <1>1, <1>4 DEF Unbound, ProxyTimer, ResetAllProxy, NetworkTimeStatus
<1> QED BY <1>3, <1>4

\* The steps of the specification, by the threads that take them.
LEMMA AllSteps ==
    ASSUME [SNext]_allVars
    PROVE  \/ \E t \in Threads : ClientStep(t) \/ ServiceStep(t)
           \/ \E t \in Agents : Connect(t)
           \/ OnRemoteDied \/ LooperStep \/ CallbackStep \/ Crash \/ Restart
           \/ UNCHANGED allVars
<1>1. ASSUME NEW t \in Threads, Proceed(t) PROVE ClientStep(t) \/ ServiceStep(t) \/ Connect(t)
  <2>1. CASE OnSet(t) \/ OnGet(t) \/ OnNetworkTimeStatus(t)
    BY <2>1 DEF OnSet, OnGet, OnNetworkTimeStatus, ServiceStep, PlainOps
  <2>2. CASE RequestTimer(t) \/ RequestProxy(t) \/ RequestSet(t) \/ RequestGet(t)
             \/ RequestNetwork(t)
    BY <2>2 DEF RequestTimer, RequestProxy, RequestSet, RequestGet, RequestNetwork, ClientStep
  <2> QED BY <1>1, <2>1, <2>2 DEF Proceed, ClientStep, ServiceStep
<1>2. ASSUME NEW t \in Threads, Bound(t) \/ Unbound(t) \/ JsCall(t) PROVE ClientStep(t)
  BY <1>2, CallsAreCalls DEF ClientStep
<1>3. ASSUME NEW t \in Threads, Return(t) \/ JsStep(t) PROVE ClientStep(t)
  BY <1>3 DEF ClientStep
<1> QED
  BY <1>1, <1>2, <1>3 DEF SNext, Running, Step, DeathStep, Agents

-----------------------------------------------------------------------------
(* No callback after DestroyTimer *)

\* Destroyed timers are not in the table, where a running OnTrigger keeps its
\* own: timerInfoMutex_ is held all the while.
DestroyInv ==
    /\ destroyed \cap table = {}
    /\ inCallback # None /\ triggered => inCallback[2] \in table

\* Who changes the table or the callback that runs.
LEMMA TableChanges ==
    ASSUME [SNext]_allVars
    PROVE  \/ \E n \in notifies : NotifyTimer(n)
           \/ OnTriggerDone
           \/ \E t \in Threads : InsertTimerCallbackInfo(t) \/ RemoveTimerCallbackInfo(t)
           \/ UNCHANGED <<table, destroyed, inCallback, triggered>>
<1> DEFINE Same == UNCHANGED <<table, destroyed, inCallback, triggered>>
<1>1. ASSUME NEW t \in Threads, ClientStep(t)
      PROVE  InsertTimerCallbackInfo(t) \/ RemoveTimerCallbackInfo(t) \/ Same
  BY <1>1 DEF ClientStep, AnyCall, Call, CheckProxy, SecondCheck, SendRequest, Return, JsStep,
     Emplace, Store, Complete, CompleteDestroy, notifyVars, tableVars
<1>2. ASSUME NEW t \in Threads, ServiceStep(t) PROVE Same
  BY <1>2 DEF ServiceStep, Answer, OnCreateTimer, FindEntry, OnStartTimer, RemoveHandler,
     RemoveProxy,
     RefuseProxy, OnTimerProxy, Retrigger, RetriggerDone, SendNotify, notifyVars, tableVars
<1>3. ASSUME NEW t \in Agents, Connect(t) PROVE Same
  BY <1>3 DEF Connect, ConnectService, AddDeathRecipient, AssignProxy, notifyVars, tableVars
<1>4. OnRemoteDied \/ LooperStep \/ Crash \/ Restart => Same
  BY DEF OnRemoteDied, LooperStep, TriggerTimers, DeliverTimer, LooperDone, SendNotify, Crash,
     Restart, notifyVars, tableVars
<1>5. UNCHANGED allVars => Same
  BY DEF allVars, vars, notifyVars, tableVars
<1> QED BY <1>1, <1>2, <1>3, <1>4, <1>5, AllSteps DEF CallbackStep

\* NotifyTimer, RemoveTimerCallbackInfo: once DestroyTimer has succeeded,
\* OnTrigger of the timer is not running and does not run again.
THEOREM DestroyedTimersAreSilent == Spec => []NoTriggerAfterDestroy
<1>1. SInit => DestroyInv
  BY DEF SInit, Init, DestroyInv
<1>2. DestroyInv /\ [SNext]_allVars => DestroyInv'
  <2> SUFFICES ASSUME DestroyInv, [SNext]_allVars PROVE DestroyInv'
    OBVIOUS
  <2>1. ASSUME NEW n \in notifies, NotifyTimer(n) PROVE DestroyInv'
    BY <2>1 DEF NotifyTimer, DestroyInv, tableVars
  <2>2. CASE OnTriggerDone
    BY <2>2 DEF OnTriggerDone, DestroyInv, tableVars
  <2>3. ASSUME NEW t \in Threads, InsertTimerCallbackInfo(t) PROVE DestroyInv'
    BY <2>3 DEF InsertTimerCallbackInfo, DestroyInv, notifyVars
  <2>4. ASSUME NEW t \in Threads, RemoveTimerCallbackInfo(t) PROVE DestroyInv'
    BY <2>4 DEF RemoveTimerCallbackInfo, DestroyInv, notifyVars
  <2>5. CASE UNCHANGED <<table, destroyed, inCallback, triggered>>
    BY <2>5 DEF DestroyInv
  <2> QED BY <2>1, <2>2, <2>3, <2>4, <2>5, TableChanges
<1>3. DestroyInv => NoTriggerAfterDestroy
  BY DEF DestroyInv, NoTriggerAfterDestroy
<1> QED BY <1>1, <1>2, <1>3, PTL DEF Spec

-----------------------------------------------------------------------------
(* Type correctness *)

\* What a thread's program counter says of its call.
ControlInv ==
    \A t \in Threads :
        /\ pc[t] = "idle" => ~ok[t]
        /\ pc[t] # "idle" =>
               /\ op[t] \in TimerOps \cup ProxyOps \cup PlainOps
               /\ op[t] = "create" /\ ok[t] => id[t] \in Ids
               /\ op[t] \in {"start", "stop", "destroy"} => id[t] \in Ids
        /\ pc[t] \in {"proxy", "retrigger"} => op[t] \in ProxyOps
        /\ pc[t] \in {"find", "entry"} => op[t] \in {"start", "stop", "destroy"}
        /\ pc[t] = "removed" => op[t] \in {"stop", "destroy"}
        /\ pc[t] = "create" => op[t] = "create"
        /\ pc[t] = "replied" => ok[t] /\ op[t] \in {"create", "destroy"}

\* entryMapMutex_ has one owner, whose entry is in the map, and whose alarm is
\* gone once it was removed.
EntryInv ==
    /\ \A t, u \in Threads : {pc[t], pc[u]} \subseteq {"entry", "removed"} => t = u
    /\ \A t \in Threads :
           /\ pc[t] \in {"entry", "removed"} => id[t] \in entries
           /\ pc[t] = "removed" => id[t] \notin alarms

\* The service works while its process runs.
UpInv ==
    /\ looping => up
    /\ \A t \in Threads : pc[t] \in InService => up
    /\ sending # None => up /\ <<epoch, sending>> \in notifies

TypeInv == TypeOK /\ ControlInv /\ EntryInv /\ UpInv

\* The types alone.
TypesOK == LifeOK /\ ServiceOK /\ NotifyOK /\ LinkOK /\ TableOK /\ CallOK /\ BoundOK

\* What a step leaves alone stays typed.
LEMMA Same ==
    /\ LifeOK /\ UNCHANGED lifeVars => LifeOK'
    /\ ServiceOK /\ UNCHANGED serviceVars => ServiceOK'
    /\ NotifyOK /\ UNCHANGED notifyVars => NotifyOK'
    /\ LinkOK /\ UNCHANGED linkVars => LinkOK'
    /\ TableOK /\ UNCHANGED tableVars => TableOK'
    /\ CallOK /\ UNCHANGED callVars => CallOK'
    /\ BoundOK /\ UNCHANGED boundVars => BoundOK'
<1>1. LifeOK /\ UNCHANGED lifeVars => LifeOK'
  BY DEF LifeOK, lifeVars
<1>2. ServiceOK /\ UNCHANGED serviceVars => ServiceOK'
  BY DEF ServiceOK, serviceVars
<1>3. NotifyOK /\ UNCHANGED notifyVars => NotifyOK'
  BY DEF NotifyOK, notifyVars
<1>4. LinkOK /\ UNCHANGED linkVars => LinkOK'
  BY DEF LinkOK, linkVars
<1>5. TableOK /\ UNCHANGED tableVars => TableOK'
  BY DEF TableOK, tableVars
<1>6. CallOK /\ UNCHANGED callVars => CallOK'
  BY DEF CallOK, callVars
<1>7. BoundOK /\ UNCHANGED boundVars => BoundOK'
  BY DEF BoundOK, boundVars
<1> QED BY <1>1, <1>2, <1>3, <1>4, <1>5, <1>6, <1>7

\* Every step keeps the types.
LEMMA TypesStep == TypeInv /\ [SNext]_allVars => TypesOK'
<1> SUFFICES ASSUME TypeInv, [SNext]_allVars PROVE TypesOK'
  OBVIOUS
<1>1. ASSUME NEW t \in Threads, AnyCall(t) PROVE TypesOK'
  <2>1. CallOK'
    BY <1>1 DEF TypeInv, TypeOK, AnyCall, Call, CallOK, Goto, CallSteps, InService, Agents, TableOK
  <2>2. BoundOK'
    BY <1>1 DEF TypeInv, TypeOK, AnyCall, Call, BoundOK
  <2> QED
    BY <1>1, <2>1, <2>2, Same DEF TypeInv, TypeOK, TypesOK, AnyCall, Call, callVars
<1>2. ASSUME NEW t \in Threads, CheckProxy(t) PROVE TypesOK'
  <2>1. CallOK'
    BY <1>2 DEF TypeInv, TypeOK, CheckProxy, CallOK, Goto, CallSteps, InService, Agents
  <2> QED
    BY <1>2, <2>1, Same DEF TypeInv, TypeOK, TypesOK, CheckProxy, callVars
<1>3. ASSUME NEW t \in Threads, SecondCheck(t) PROVE TypesOK'
  <2>1. CallOK'
    BY <1>3 DEF TypeInv, TypeOK, SecondCheck, CallOK, Reply, Goto, CallSteps, InService, Agents
  <2> QED
    BY <1>3, <2>1, Same DEF TypeInv, TypeOK, TypesOK, SecondCheck, callVars
<1>4. ASSUME NEW t \in Threads, SendRequest(t) PROVE TypesOK'
  <2>1. CallOK'
    <3>1. CASE proxy = None /\ UNCHANGED callVars
      BY <3>1, Same DEF TypeInv, TypeOK
    <3>2. CASE Reply(t, FALSE)
      BY <3>2 DEF TypeInv, TypeOK, CallOK, Reply, Goto, CallSteps, Agents
    <3>3. CASE OnRemoteRequest(t) /\ UNCHANGED <<op, id, ok>>
      <4>1. op[t] \in TimerOps \cup ProxyOps \cup PlainOps
        BY <1>4 DEF TypeInv, ControlInv, SendRequest
      <4>2. \E step \in InService : Goto(t, step)
        BY <3>3, <4>1 DEF OnRemoteRequest, InService, TimerOps, ProxyOps, PlainOps
      <4> QED BY <3>3, <4>2 DEF TypeInv, TypeOK, CallOK, Goto, CallSteps, Agents
    <3> QED BY <1>4, <3>1, <3>2, <3>3 DEF SendRequest
  <2>2. BoundOK'
    BY <1>4 DEF TypeInv, TypeOK, SendRequest, BoundOK
  <2> QED
    BY <1>4, <2>1, <2>2, Same DEF TypeInv, TypeOK, TypesOK, SendRequest, callVars
<1>5. ASSUME NEW t \in Threads, InsertTimerCallbackInfo(t) PROVE TypesOK'
  <2>1. TableOK'
    BY <1>5 DEF TypeInv, TypeOK, InsertTimerCallbackInfo, TableOK, ControlInv, CallOK
  <2>2. CallOK'
    BY <1>5 DEF TypeInv, TypeOK, InsertTimerCallbackInfo, CallOK, Goto, CallSteps, InService, Agents
  <2> QED
    BY <1>5, <2>1, <2>2, Same DEF TypeInv, TypeOK, TypesOK, InsertTimerCallbackInfo, callVars
<1>6. ASSUME NEW t \in Threads, RemoveTimerCallbackInfo(t) PROVE TypesOK'
  <2>1. TableOK'
    BY <1>6 DEF TypeInv, TypeOK, RemoveTimerCallbackInfo, TableOK, ControlInv, CallOK
  <2>2. CallOK'
    BY <1>6 DEF TypeInv, TypeOK, RemoveTimerCallbackInfo, CallOK, Goto, CallSteps, InService, Agents
  <2> QED
    BY <1>6, <2>1, <2>2, Same DEF TypeInv, TypeOK, TypesOK, RemoveTimerCallbackInfo, callVars
<1>7. ASSUME NEW t \in Threads, Return(t) PROVE TypesOK'
  <2>1. TableOK'
    BY <1>7 DEF TypeInv, TypeOK, Return, TableOK, Finish, ControlInv, CallOK
  <2>2. CallOK'
    BY <1>7 DEF TypeInv, TypeOK, Return, CallOK, Goto, Finish, CallSteps, InService, Agents
  <2> QED
    BY <1>7, <2>1, <2>2, Same DEF TypeInv, TypeOK, TypesOK, Return, callVars
<1>8. ASSUME NEW t \in Threads, Emplace(t) PROVE TypesOK'
  <2>1. CallOK'
    BY <1>8 DEF TypeInv, TypeOK, Emplace, CallOK, Goto, CallSteps, InService, Agents
  <2> QED
    BY <1>8, <2>1, Same DEF TypeInv, TypeOK, TypesOK, Emplace, callVars
<1>9. ASSUME NEW t \in Threads, Store(t) PROVE TypesOK'
  <2>1. CallOK'
    BY <1>9 DEF TypeInv, TypeOK, Store, CallOK, Goto, CallSteps, InService, Agents
  <2>2. BoundOK'
    BY <1>9 DEF TypeInv, TypeOK, Store, BoundOK
  <2> QED
    BY <1>9, <2>1, <2>2, Same DEF TypeInv, TypeOK, TypesOK, Store, callVars
<1>10. ASSUME NEW t \in Threads, Complete(t) PROVE TypesOK'
  <2>1. TableOK'
    BY <1>10 DEF TypeInv, TypeOK, Complete, TableOK, Finish, ControlInv, CallOK
  <2>2. CallOK'
    BY <1>10 DEF TypeInv, TypeOK, Complete, CallOK, Goto, Finish, CallSteps, InService, Agents
  <2>3. BoundOK'
    BY <1>10 DEF TypeInv, TypeOK, Complete, BoundOK
  <2> QED
    BY <1>10, <2>1, <2>2, <2>3, Same DEF TypeInv, TypeOK, TypesOK, Complete, callVars
<1>11. ASSUME NEW t \in Threads, CompleteDestroy(t) PROVE TypesOK'
  <2>1. TableOK'
    BY <1>11 DEF TypeInv, TypeOK, CompleteDestroy, TableOK, Finish, ControlInv, CallOK
  <2>2. CallOK'
    BY <1>11 DEF TypeInv, TypeOK, CompleteDestroy, CallOK, Goto, Finish, CallSteps, InService,
       Agents
  <2>3. BoundOK'
    BY <1>11 DEF TypeInv, TypeOK, CompleteDestroy, BoundOK
  <2> QED
    BY <1>11, <2>1, <2>2, <2>3, Same DEF TypeInv, TypeOK, TypesOK, CompleteDestroy, callVars
<1>12. ASSUME NEW t \in Threads, NEW results \in SUBSET BOOLEAN, op[t] \in PlainOps,
              Answer(t, results)
      PROVE  TypesOK'
  <2>1. CallOK'
    BY <1>12 DEF TypeInv, TypeOK, Answer, CallOK, Reply, Goto, CallSteps, InService, Agents
  <2> QED
    BY <1>12, <2>1, Same DEF TypeInv, TypeOK, TypesOK, Answer, callVars
<1>13. ASSUME NEW t \in Threads, OnCreateTimer(t) PROVE TypesOK'
  <2>1. ServiceOK'
    BY <1>13 DEF TypeInv, TypeOK, OnCreateTimer, ServiceOK
  <2>2. CallOK'
    <3>1. CASE Reply(t, FALSE)
      BY <3>1 DEF TypeInv, TypeOK, CallOK, Reply, Goto, CallSteps, Agents
    <3>2. ASSUME NEW i \in Ids, id' = [id EXCEPT ![t] = i], ok' = [ok EXCEPT ![t] = TRUE],
                 Goto(t, "replied"), UNCHANGED op
          PROVE  CallOK'
      BY <3>2 DEF TypeInv, TypeOK, CallOK, Goto, CallSteps, Agents
    <3> QED BY <1>13, <3>1, <3>2 DEF OnCreateTimer
  <2> QED
    BY <1>13, <2>1, <2>2, Same DEF TypeInv, TypeOK, TypesOK, OnCreateTimer, callVars
<1>14. ASSUME NEW t \in Threads, FindEntry(t) PROVE TypesOK'
  <2>1. CallOK'
    BY <1>14 DEF TypeInv, TypeOK, FindEntry, CallOK, Reply, Goto, CallSteps, InService, Agents
  <2> QED
    BY <1>14, <2>1, Same DEF TypeInv, TypeOK, TypesOK, FindEntry, callVars
<1>15. ASSUME NEW t \in Threads, OnStartTimer(t) PROVE TypesOK'
  <2>1. ServiceOK'
    BY <1>15 DEF TypeInv, TypeOK, OnStartTimer, ServiceOK, EntryInv, ControlInv
  <2>2. CallOK'
    BY <1>15 DEF TypeInv, TypeOK, OnStartTimer, CallOK, Reply, Goto, CallSteps, InService, Agents
  <2> QED
    BY <1>15, <2>1, <2>2, Same DEF TypeInv, TypeOK, TypesOK, OnStartTimer, callVars
<1>16. ASSUME NEW t \in Threads, RemoveHandler(t) PROVE TypesOK'
  <2>1. ServiceOK'
    BY <1>16 DEF TypeInv, TypeOK, RemoveHandler, ServiceOK
  <2>2. CallOK'
    BY <1>16 DEF TypeInv, TypeOK, RemoveHandler, CallOK, Goto, CallSteps, InService, Agents
  <2> QED
    BY <1>16, <2>1, <2>2, Same DEF TypeInv, TypeOK, TypesOK, RemoveHandler, callVars
<1>17. ASSUME NEW t \in Threads, RemoveProxy(t) PROVE TypesOK'
  <2>1. ServiceOK'
    BY <1>17 DEF TypeInv, TypeOK, RemoveProxy, ServiceOK, EntryInv, ControlInv
  <2>2. CallOK'
    BY <1>17 DEF TypeInv, TypeOK, RemoveProxy, CallOK, Reply, Goto, CallSteps, InService, Agents
  <2> QED
    BY <1>17, <2>1, <2>2, Same DEF TypeInv, TypeOK, TypesOK, RemoveProxy, callVars
<1>18. ASSUME NEW t \in Threads, RefuseProxy(t) PROVE TypesOK'
  <2>1. CallOK'
    BY <1>18 DEF TypeInv, TypeOK, RefuseProxy, CallOK, Reply, Goto, CallSteps, InService, Agents
  <2> QED
    BY <1>18, <2>1, Same DEF TypeInv, TypeOK, TypesOK, RefuseProxy, callVars
<1>19. ASSUME NEW t \in Threads, OnTimerProxy(t) PROVE TypesOK'
  <2>1. ServiceOK'
    BY <1>19 DEF TypeInv, TypeOK, OnTimerProxy, ServiceOK
  <2>2. CallOK'
    BY <1>19 DEF TypeInv, TypeOK, OnTimerProxy, CallOK, Reply, Goto, CallSteps, InService, Agents
  <2> QED
    BY <1>19, <2>1, <2>2, Same DEF TypeInv, TypeOK, TypesOK, OnTimerProxy, callVars
<1>20. ASSUME NEW t \in Threads, Retrigger(t) PROVE TypesOK'
  <2>1. ServiceOK'
    BY <1>20 DEF TypeInv, TypeOK, Retrigger, ServiceOK, SendNotify
  <2>2. NotifyOK'
    BY <1>20 DEF TypeInv, TypeOK, Retrigger, NotifyOK, SendNotify, ServiceOK, LifeOK
  <2> QED
    BY <1>20, <2>1, <2>2, Same DEF TypeInv, TypeOK, TypesOK, Retrigger
<1>21. ASSUME NEW t \in Threads, RetriggerDone(t) PROVE TypesOK'
  <2>1. CallOK'
    BY <1>21 DEF TypeInv, TypeOK, RetriggerDone, CallOK, Reply, Goto, CallSteps, InService, Agents
  <2> QED
    BY <1>21, <2>1, Same DEF TypeInv, TypeOK, TypesOK, RetriggerDone, callVars
<1>22. ASSUME NEW t \in Agents, ConnectService(t) PROVE TypesOK'
  <2>1. LinkOK'
    BY <1>22 DEF TypeInv, TypeOK, ConnectService, LinkOK, LifeOK
  <2>2. CallOK'
    BY <1>22 DEF TypeInv, TypeOK, ConnectService, CallOK, Goto, CallSteps, InService, Agents
  <2> QED
    BY <1>22, <2>1, <2>2, Same DEF TypeInv, TypeOK, TypesOK, ConnectService, callVars
<1>23. ASSUME NEW t \in Agents, AddDeathRecipient(t) PROVE TypesOK'
  <2>1. LinkOK'
    BY <1>23 DEF TypeInv, TypeOK, AddDeathRecipient, LinkOK
  <2>2. CallOK'
    BY <1>23 DEF TypeInv, TypeOK, AddDeathRecipient, CallOK, Goto, CallSteps, InService, Agents
  <2> QED
    BY <1>23, <2>1, <2>2, Same DEF TypeInv, TypeOK, TypesOK, AddDeathRecipient, callVars
<1>24. ASSUME NEW t \in Agents, AssignProxy(t) PROVE TypesOK'
  <2>1. LinkOK'
    BY <1>24 DEF TypeInv, TypeOK, AssignProxy, LinkOK
  <2>2. CallOK'
    BY <1>24 DEF TypeInv, TypeOK, AssignProxy, CallOK, Goto, CallSteps, InService, Agents
  <2>3. BoundOK'
    BY <1>24 DEF TypeInv, TypeOK, AssignProxy, BoundOK
  <2> QED
    BY <1>24, <2>1, <2>2, <2>3, Same DEF TypeInv, TypeOK, TypesOK, AssignProxy, callVars
<1>25. CASE OnRemoteDied
  <2>1. LinkOK'
    BY <1>25 DEF TypeInv, TypeOK, OnRemoteDied, LinkOK
  <2>2. CallOK'
    BY <1>25 DEF TypeInv, TypeOK, OnRemoteDied, CallOK, Goto, CallSteps, InService, Agents
  <2> QED
    BY <1>25, <2>1, <2>2, Same DEF TypeInv, TypeOK, TypesOK, OnRemoteDied, callVars
<1>26. CASE TriggerTimers
  <2>1. ServiceOK'
    BY <1>26 DEF TypeInv, TypeOK, TriggerTimers, ServiceOK
  <2>2. BoundOK'
    BY <1>26 DEF TypeInv, TypeOK, TriggerTimers, BoundOK
  <2> QED
    BY <1>26, <2>1, <2>2, Same DEF TypeInv, TypeOK, TypesOK, TriggerTimers
<1>27. CASE DeliverTimer
  <2>1. ServiceOK'
    BY <1>27 DEF TypeInv, TypeOK, DeliverTimer, ServiceOK, SendNotify
  <2>2. NotifyOK'
    <3>1. ASSUME NEW i \in due, SendNotify(i) PROVE NotifyOK'
      BY <3>1 DEF TypeInv, TypeOK, NotifyOK, SendNotify, ServiceOK, LifeOK
    <3>2. CASE UNCHANGED notifyVars
      BY <3>2, Same DEF TypeInv, TypeOK
    <3> QED BY <1>27, <3>1, <3>2 DEF DeliverTimer
  <2> QED
    BY <1>27, <2>1, <2>2, Same DEF TypeInv, TypeOK, TypesOK, DeliverTimer
<1>28. CASE LooperDone
  <2>1. ServiceOK'
    BY <1>28 DEF TypeInv, TypeOK, LooperDone, ServiceOK
  <2> QED
    BY <1>28, <2>1, Same DEF TypeInv, TypeOK, TypesOK, LooperDone
<1>29. ASSUME NEW n \in notifies, NotifyTimer(n) PROVE TypesOK'
  <2>1. NotifyOK'
    BY <1>29 DEF TypeInv, TypeOK, NotifyTimer, NotifyOK
  <2> QED
    BY <1>29, <2>1, Same DEF TypeInv, TypeOK, TypesOK, NotifyTimer
<1>30. CASE OnTriggerDone
  <2>1. ServiceOK'
    BY <1>30 DEF TypeInv, TypeOK, OnTriggerDone, ServiceOK
  <2>2. NotifyOK'
    BY <1>30 DEF TypeInv, TypeOK, OnTriggerDone, NotifyOK
  <2> QED
    BY <1>30, <2>1, <2>2, Same DEF TypeInv, TypeOK, TypesOK, OnTriggerDone
<1>31. CASE Crash
  <2>1. LifeOK'
    <3>1. crashes' \in Nat
      BY <1>31 DEF TypeInv, TypeOK, Crash, LifeOK
    <3> QED BY <1>31, <3>1 DEF TypeInv, TypeOK, Crash, LifeOK
  <2>2. ServiceOK'
    BY <1>31 DEF TypeInv, TypeOK, Crash, ServiceOK
  <2>3. LinkOK'
    BY <1>31 DEF TypeInv, TypeOK, Crash, LinkOK
  <2>4. CallOK'
    BY <1>31 DEF TypeInv, TypeOK, Crash, CallOK, CallSteps, InService, Agents
  <2> QED
    BY <1>31, <2>1, <2>2, <2>3, <2>4, Same DEF TypeInv, TypeOK, TypesOK, Crash, vars, lifeVars,
       callVars
<1>32. CASE Restart
  <2>1. LifeOK'
    BY <1>32 DEF TypeInv, TypeOK, Restart, LifeOK
  <2> QED
    BY <1>32, <2>1, Same DEF TypeInv, TypeOK, TypesOK, Restart, vars, lifeVars
<1>33. CASE UNCHANGED allVars
  BY <1>33, Same DEF allVars, vars, TypeInv, TypeOK, TypesOK
<1> QED
  BY <1>1, <1>2, <1>3, <1>4, <1>5, <1>6, <1>7, <1>8, <1>9, <1>10, <1>11, <1>12, <1>13, <1>14,
     <1>15, <1>16, <1>17, <1>18, <1>19, <1>20, <1>21, <1>22, <1>23, <1>24, <1>25, <1>26,
     <1>27, <1>28, <1>29, <1>30, <1>31, <1>32, <1>33, AllSteps
     DEF ClientStep, JsStep, ServiceStep, Connect, LooperStep, CallbackStep


\* Every step keeps what the program counters say.
LEMMA ControlStep == TypeInv /\ [SNext]_allVars => ControlInv'
<1> SUFFICES ASSUME TypeInv, [SNext]_allVars PROVE ControlInv'
  OBVIOUS
<1>0. CallOK /\ ControlInv /\ known \subseteq Ids /\ Death \notin Threads
  BY ClientAssumption DEF TypeInv, TypeOK, TableOK
<1> USE <1>0 DEF CallOK, ControlInv, Goto, Agents, TimerOps, ProxyOps, PlainOps
<1>1. ASSUME NEW t \in Threads, AnyCall(t) PROVE ControlInv'
  BY <1>1 DEF AnyCall, Call
<1>2. ASSUME NEW t \in Threads, CheckProxy(t) \/ SecondCheck(t) PROVE ControlInv'
  BY <1>2 DEF CheckProxy, SecondCheck, Reply
<1>3. ASSUME NEW t \in Threads, SendRequest(t) PROVE ControlInv'
  BY <1>3 DEF SendRequest, Reply, OnRemoteRequest, callVars
<1>4. ASSUME NEW t \in Threads, InsertTimerCallbackInfo(t) \/ RemoveTimerCallbackInfo(t)
      PROVE  ControlInv'
  BY <1>4 DEF InsertTimerCallbackInfo, RemoveTimerCallbackInfo
<1>5. ASSUME NEW t \in Threads, Finish(t) PROVE ControlInv'
  BY <1>5 DEF Finish
<1>6. ASSUME NEW t \in Threads, Emplace(t) \/ Store(t) PROVE ControlInv'
  BY <1>6 DEF Emplace, Store
<1>7. ASSUME NEW t \in Threads, ServiceStep(t) PROVE ControlInv'
  <2>1. ASSUME NEW result \in BOOLEAN, Reply(t, result), pc[t] # "idle",
               result => op[t] # "create"
        PROVE  ControlInv'
    BY <2>1 DEF Reply
  <2>2. CASE \E results \in SUBSET BOOLEAN : op[t] \in PlainOps /\ Answer(t, results)
    BY <2>1, <2>2 DEF Answer
  <2>3. CASE OnCreateTimer(t)
    <3>1. ASSUME NEW i \in Ids, id' = [id EXCEPT ![t] = i], ok' = [ok EXCEPT ![t] = TRUE],
                 Goto(t, "replied"), op' = op
          PROVE  ControlInv'
      BY <2>3, <3>1 DEF OnCreateTimer
    <3>2. Reply(t, FALSE) => ControlInv'
      BY <2>1, <2>3 DEF OnCreateTimer
    <3> HIDE DEF CallOK, ControlInv, Goto
    <3> QED BY <2>3, <3>1, <3>2 DEF OnCreateTimer
  <2>4. CASE FindEntry(t)
    BY <2>4 DEF FindEntry, Reply
  <2>5. CASE OnStartTimer(t) \/ RemoveProxy(t) \/ RefuseProxy(t) \/ RetriggerDone(t)
    BY <2>1, <2>5 DEF OnStartTimer, RemoveProxy, RefuseProxy, RetriggerDone
  <2>6. CASE RemoveHandler(t)
    BY <2>6 DEF RemoveHandler
  <2>7. CASE OnTimerProxy(t)
    BY <2>1, <2>7 DEF OnTimerProxy
  <2>8. CASE Retrigger(t)
    BY <2>8 DEF Retrigger, callVars
  <2> QED BY <1>7, <2>2, <2>3, <2>4, <2>5, <2>6, <2>7, <2>8 DEF ServiceStep
<1>8. ASSUME NEW t \in Agents, Connect(t) PROVE ControlInv'
  BY <1>8 DEF Connect, ConnectService, AddDeathRecipient, AssignProxy
<1>9. CASE OnRemoteDied
  BY <1>9 DEF OnRemoteDied
<1>10. CASE Crash
  BY <1>10 DEF Crash, InService
<1>11. CASE UNCHANGED callVars
  BY <1>11 DEF callVars
<1>12. LooperStep \/ CallbackStep \/ Restart \/ UNCHANGED allVars => UNCHANGED callVars
  BY DEF LooperStep, TriggerTimers, DeliverTimer, LooperDone, CallbackStep, NotifyTimer,
     OnTriggerDone, Restart, allVars, vars
<1> QED
  BY <1>1, <1>2, <1>3, <1>4, <1>5, <1>6, <1>7, <1>8, <1>9, <1>10, <1>11, <1>12, AllSteps
     DEF ClientStep, JsStep, Return, Complete, CompleteDestroy

\* Who takes entryMapMutex_, changes the map or the alarms.
LEMMA EntryStep == TypeInv /\ [SNext]_allVars => EntryInv'
<1> SUFFICES ASSUME TypeInv, [SNext]_allVars PROVE EntryInv'
  OBVIOUS
<1>0. CallOK /\ ControlInv /\ EntryInv /\ Death \notin Threads
  BY ClientAssumption DEF TypeInv, TypeOK
<1> USE <1>0 DEF CallOK, EntryInv, Agents
<1>1. ASSUME NEW t \in Agents, NEW step \in CallSteps \ {"entry", "removed"}, Goto(t, step),
             UNCHANGED <<entries, alarms>>, \A u \in Threads \ {t} : id'[u] = id[u]
      PROVE  EntryInv'
  BY <1>1 DEF Goto
<1>2. ASSUME NEW t \in Threads, ClientStep(t) PROVE EntryInv'
  <2>1. CASE AnyCall(t)
    BY <1>1, <2>1 DEF AnyCall, Call, CallSteps, serviceVars
  <2>2. CASE CheckProxy(t) \/ SecondCheck(t)
    BY <1>1, <2>2 DEF CheckProxy, SecondCheck, Reply, CallSteps, serviceVars
  <2>3. CASE SendRequest(t)
    <3>1. op[t] \in TimerOps \cup ProxyOps \cup PlainOps
      BY <2>3 DEF ControlInv, SendRequest
    <3>2. OnRemoteRequest(t) => \E step \in {"create", "find", "proxy", "plain"} : Goto(t, step)
      BY <3>1 DEF OnRemoteRequest, TimerOps, ProxyOps, PlainOps
    <3> QED
      BY <1>1, <2>3, <3>2 DEF SendRequest, Reply, CallSteps, InService, serviceVars, callVars
  <2>4. CASE InsertTimerCallbackInfo(t) \/ RemoveTimerCallbackInfo(t)
    BY <1>1, <2>4 DEF InsertTimerCallbackInfo, RemoveTimerCallbackInfo, CallSteps, serviceVars
  <2>5. CASE Return(t) \/ Complete(t) \/ CompleteDestroy(t)
    BY <1>1, <2>5 DEF Return, Complete, CompleteDestroy, Finish, CallSteps, serviceVars
  <2>6. CASE Emplace(t) \/ Store(t)
    BY <1>1, <2>6 DEF Emplace, Store, CallSteps, serviceVars
  <2> QED BY <1>2, <2>1, <2>2, <2>3, <2>4, <2>5, <2>6 DEF ClientStep, JsStep
<1>3. ASSUME NEW t \in Threads, ServiceStep(t) PROVE EntryInv'
  <2>1. CASE \E results \in SUBSET BOOLEAN : op[t] \in PlainOps /\ Answer(t, results)
    BY <1>1, <2>1 DEF Answer, Reply, CallSteps, serviceVars
  <2>2. CASE OnCreateTimer(t)
    BY <2>2 DEF OnCreateTimer, Reply, Goto
  <2>3. CASE FindEntry(t)
    BY <2>3 DEF FindEntry, Reply, Goto, EntryMapFree, serviceVars, TypeInv, TypeOK, ServiceOK
  <2>4. CASE OnStartTimer(t)
    BY <2>4 DEF OnStartTimer, Reply, Goto, ControlInv
  <2>5. CASE RemoveHandler(t)
    BY <2>5 DEF RemoveHandler, Goto
  <2>6. CASE RemoveProxy(t)
    BY <2>6 DEF RemoveProxy, Reply, Goto
  <2>7. CASE RefuseProxy(t) \/ RetriggerDone(t)
    BY <1>1, <2>7 DEF RefuseProxy, RetriggerDone, Reply, CallSteps, serviceVars
  <2>8. CASE OnTimerProxy(t)
    BY <1>1, <2>8 DEF OnTimerProxy, Reply, CallSteps, InService
  <2>9. CASE Retrigger(t)
    BY <2>9 DEF Retrigger, callVars
  <2> QED BY <1>3, <2>1, <2>2, <2>3, <2>4, <2>5, <2>6, <2>7, <2>8, <2>9 DEF ServiceStep
<1>4. ASSUME NEW t \in Agents, Connect(t) PROVE EntryInv'
  BY <1>1, <1>4 DEF Connect, ConnectService, AddDeathRecipient, AssignProxy, CallSteps, serviceVars
<1>5. CASE OnRemoteDied
  BY <1>1, <1>5 DEF OnRemoteDied, CallSteps, serviceVars
<1>6. CASE LooperStep
  BY <1>6 DEF LooperStep, TriggerTimers, DeliverTimer, LooperDone, callVars
<1>7. CASE CallbackStep
  BY <1>7 DEF CallbackStep, NotifyTimer, OnTriggerDone, serviceVars, callVars
<1>8. CASE Crash
  BY <1>8 DEF Crash, InService
<1>9. CASE Restart \/ UNCHANGED allVars
  BY <1>9 DEF Restart, allVars, vars, serviceVars, callVars
<1> QED BY <1>2, <1>3, <1>4, <1>5, <1>6, <1>7, <1>8, <1>9, AllSteps

\* The service works while its process runs, after every step.
LEMMA UpStep == TypeInv /\ [SNext]_allVars => UpInv'
<1> SUFFICES ASSUME TypeInv, [SNext]_allVars PROVE UpInv'
  OBVIOUS
<1>0. CallOK /\ ControlInv /\ UpInv /\ Death \notin Threads
  BY ClientAssumption DEF TypeInv, TypeOK
<1> USE <1>0 DEF CallOK, UpInv, Agents
<1>1. ASSUME NEW t \in Agents, NEW step, Goto(t, step), step \in InService => up,
             UNCHANGED <<looping, sending, notifies, up, epoch>>
      PROVE  UpInv'
  BY <1>1 DEF Goto
<1>2. ASSUME NEW t \in Threads, ClientStep(t) PROVE UpInv'
  <2>1. CASE SendRequest(t)
    <3>1. CASE Live(proxy)
      <4>1. up
        BY <3>1 DEF Live
      <4> QED BY <2>1, <4>1 DEF SendRequest, Reply, Goto, OnRemoteRequest, callVars, serviceVars,
                 lifeVars, notifyVars
    <3>2. CASE ~Live(proxy)
      BY <1>1, <2>1, <3>2 DEF SendRequest, Reply, callVars, serviceVars, lifeVars, notifyVars,
         InService
    <3> QED BY <3>1, <3>2
  <2>2. CASE AnyCall(t) \/ CheckProxy(t) \/ SecondCheck(t)
    BY <1>1, <2>2 DEF AnyCall, Call, CheckProxy, SecondCheck, Reply, InService, serviceVars,
       lifeVars, notifyVars
  <2>3. CASE InsertTimerCallbackInfo(t) \/ RemoveTimerCallbackInfo(t)
    BY <1>1, <2>3 DEF InsertTimerCallbackInfo, RemoveTimerCallbackInfo, InService, serviceVars,
       lifeVars, notifyVars
  <2>4. CASE Return(t) \/ JsStep(t)
    BY <1>1, <2>4 DEF Return, JsStep, Emplace, Store, Complete, CompleteDestroy, Finish, InService,
       serviceVars, lifeVars, notifyVars
  <2> QED BY <1>2, <2>1, <2>2, <2>3, <2>4 DEF ClientStep
<1>3. ASSUME NEW t \in Threads, ServiceStep(t) PROVE UpInv'
  <2>1. up
    BY <1>3 DEF ServiceStep, Answer, OnCreateTimer, FindEntry, OnStartTimer, RemoveHandler,
       RemoveProxy, RefuseProxy, OnTimerProxy, Retrigger, RetriggerDone, InService
  <2>2. UNCHANGED <<up, epoch, looping>>
    BY <1>3 DEF ServiceStep, Answer, OnCreateTimer, FindEntry, OnStartTimer, RemoveHandler,
       RemoveProxy, RefuseProxy, OnTimerProxy, Retrigger, RetriggerDone, lifeVars, serviceVars
  <2>3. UNCHANGED <<sending, notifies>> \/ Retrigger(t)
    BY <1>3 DEF ServiceStep, Answer, OnCreateTimer, FindEntry, OnStartTimer, RemoveHandler,
       RemoveProxy, RefuseProxy, OnTimerProxy, RetriggerDone, notifyVars, serviceVars
  <2>4. (sending # None => <<epoch, sending>> \in notifies)'
    BY <2>2, <2>3 DEF Retrigger, SendNotify
  <2> QED BY <2>1, <2>2, <2>4
<1>4. ASSUME NEW t \in Agents, Connect(t) PROVE UpInv'
  BY <1>1, <1>4 DEF Connect, ConnectService, AddDeathRecipient, AssignProxy, InService, serviceVars,
     lifeVars, notifyVars
<1>5. CASE OnRemoteDied
  BY <1>1, <1>5 DEF OnRemoteDied, InService, serviceVars, lifeVars, notifyVars
<1>6. CASE TriggerTimers \/ LooperDone
  BY <1>6 DEF TriggerTimers, LooperDone, lifeVars, notifyVars, callVars
<1>7. CASE DeliverTimer
  BY <1>7 DEF DeliverTimer, SendNotify, lifeVars, notifyVars, callVars
<1>8. CASE CallbackStep
  <2>1. CASE OnTriggerDone
    <3> SUFFICES ASSUME sending' # None PROVE <<epoch, sending>> \in notifies' /\ sending' = sending
      BY <2>1 DEF OnTriggerDone, lifeVars, callVars
    <3>1. sending' = sending /\ ~Live(inCallback[1])
      BY <2>1 DEF OnTriggerDone
    <3>2. <<epoch, sending>> # inCallback
      BY <3>1 DEF Live
    <3> QED BY <2>1, <3>1, <3>2 DEF OnTriggerDone
  <2>2. ASSUME NEW n \in notifies, NotifyTimer(n) PROVE UpInv'
    BY <2>2 DEF NotifyTimer, serviceVars, lifeVars, callVars
  <2> QED BY <1>8, <2>1, <2>2 DEF CallbackStep
<1>9. CASE Crash
  BY <1>9 DEF Crash, InService
<1>10. CASE Restart
  BY <1>10 DEF Restart, serviceVars, notifyVars, callVars
<1>11. CASE UNCHANGED allVars
  BY <1>11 DEF allVars, vars, serviceVars, lifeVars, notifyVars, callVars
<1> QED
  BY <1>2, <1>3, <1>4, <1>5, <1>6, <1>7, <1>8, <1>9, <1>10, <1>11, AllSteps DEF LooperStep

\* Every step keeps the type invariant.
LEMMA TypeStep == TypeInv /\ [SNext]_allVars => TypeInv'
BY TypesStep, ControlStep, EntryStep, UpStep DEF TypeInv, TypeOK, TypesOK, UpInv

\* The initial states satisfy it: an application that starts, or one with timers.
LEMMA TypeInit == SInit => TypeInv
<1> SUFFICES ASSUME SInit PROVE TypeInv
  OBVIOUS
<1> USE DEF SInit, Init
<1>1. epoch \in Nat /\ crashes \in Nat /\ begun \in Nat /\ passes \in Nat
      /\ watchers \in Nat /\ notices \in Nat /\ proxy \in Nat \cup {None}
  OBVIOUS
<1>2. LifeOK /\ BoundOK
  BY <1>1 DEF LifeOK, BoundOK
<1>3. ServiceOK
  BY DEF ServiceOK
<1>4. NotifyOK /\ TableOK
  BY DEF NotifyOK, TableOK
<1>5. LinkOK
  BY <1>1 DEF LinkOK
<1>6. CallOK
  BY DEF CallOK, CallSteps
<1>7. ControlInv /\ EntryInv /\ UpInv
  BY DEF ControlInv, EntryInv, UpInv, InService, Agents
<1> QED BY <1>2, <1>3, <1>4, <1>5, <1>6, <1>7 DEF TypeInv, TypeOK, UpInv

\* TimerClient: every reachable state is typed; only existing timers are started,
\* and what the service waits for has reached the application.
THEOREM ClientTypeCorrect == Spec => []TypeOK
<1>1. TypeInv => TypeOK
  BY DEF TypeInv
<1> QED BY <1>1, TypeInit, TypeStep, PTL DEF Spec

-----------------------------------------------------------------------------
(* A dead connection is noticed *)

\* Proxies lead to processes of the past or the present; one that leads to the
\* present, or is about to be stored, is watched.
LinkInv ==
    /\ proxy # None => proxy <= epoch
    /\ \A t \in Agents : got[t] # None => got[t] <= epoch
    /\ raced => proxy # None /\ ~Live(proxy)
    /\ proxy # None /\ Live(proxy) => watchers > 0
    /\ \A t \in Agents : pc[t] = "assign" /\ got[t] # None /\ Live(got[t]) => watchers > 0
    /\ StaleProxyNoticed

\* Who changes the connection or the process it leads to.  Nobody else moves the
\* death recipients' thread or comes to the assignment.
LEMMA LinkChanges ==
    ASSUME TypeInv, [SNext]_allVars
    PROVE  \/ \E t \in Agents : Connect(t)
           \/ OnRemoteDied \/ Crash \/ Restart
           \/ /\ UNCHANGED <<linkVars, up, epoch>>
              /\ pc'[Death] = pc[Death]
              /\ \A t \in Agents : pc'[t] = "assign" => pc[t] = "assign"
<1> DEFINE Other == /\ UNCHANGED <<linkVars, up, epoch>>
                    /\ pc'[Death] = pc[Death]
                    /\ \A t \in Agents : pc'[t] = "assign" => pc[t] = "assign"
<1>0. CallOK /\ ControlInv /\ Death \notin Threads
  BY ClientAssumption DEF TypeInv, TypeOK
<1>1. ASSUME NEW t \in Threads, NEW step, step # "assign", Goto(t, step),
             UNCHANGED <<linkVars, lifeVars>>
      PROVE  Other
  BY <1>0, <1>1 DEF Goto, CallOK, Agents, lifeVars
<1>2. UNCHANGED <<linkVars, lifeVars, callVars>> => Other
  BY DEF callVars, lifeVars
<1>3. ASSUME NEW t \in Threads, ClientStep(t) PROVE Other
  <2>1. CASE SendRequest(t)
    <3>1. op[t] \in TimerOps \cup ProxyOps \cup PlainOps
      BY <1>0, <2>1 DEF ControlInv, SendRequest
    <3>2. OnRemoteRequest(t) => \E step \in {"create", "find", "proxy", "plain"} : Goto(t, step)
      BY <3>1 DEF OnRemoteRequest, TimerOps, ProxyOps, PlainOps
    <3>3. (\E step \in {"create", "find", "proxy", "plain", "replied", "return"} : Goto(t, step))
          \/ UNCHANGED callVars
      BY <2>1, <3>2 DEF SendRequest, Reply
    <3> QED BY <1>1, <1>2, <2>1, <3>3 DEF SendRequest
  <2>2. CASE AnyCall(t) \/ CheckProxy(t) \/ SecondCheck(t)
    BY <1>1, <2>2 DEF AnyCall, Call, CheckProxy, SecondCheck, Reply
  <2>3. CASE InsertTimerCallbackInfo(t) \/ RemoveTimerCallbackInfo(t)
    BY <1>1, <2>3 DEF InsertTimerCallbackInfo, RemoveTimerCallbackInfo
  <2>4. CASE Return(t) \/ JsStep(t)
    BY <1>1, <2>4 DEF Return, JsStep, Emplace, Store, Complete, CompleteDestroy, Finish
  <2> QED BY <1>3, <2>1, <2>2, <2>3, <2>4 DEF ClientStep
<1>4. ASSUME NEW t \in Threads, ServiceStep(t) PROVE Other
  <2>1. UNCHANGED <<linkVars, lifeVars>>
    BY <1>4 DEF ServiceStep, Answer, OnCreateTimer, FindEntry, OnStartTimer, RemoveHandler,
       RemoveProxy, RefuseProxy, OnTimerProxy, Retrigger, RetriggerDone
  <2>2. (\E step \in {"entry", "removed", "retrigger", "replied", "return"} : Goto(t, step))
        \/ UNCHANGED callVars
    BY <1>4 DEF ServiceStep, Answer, OnCreateTimer, FindEntry, OnStartTimer, RemoveHandler,
       RemoveProxy, RefuseProxy, OnTimerProxy, Retrigger, RetriggerDone, Reply
  <2> QED BY <1>1, <1>2, <2>1, <2>2
<1>5. LooperStep \/ CallbackStep \/ UNCHANGED allVars => UNCHANGED <<linkVars, lifeVars, callVars>>
  BY DEF LooperStep, TriggerTimers, DeliverTimer, LooperDone, CallbackStep, NotifyTimer,
     OnTriggerDone, allVars, vars
<1> QED BY <1>2, <1>3, <1>4, <1>5, AllSteps

\* ConnectService, OnRemoteSaDied: a client whose proxy leads to a dead process
\* is about to be told, unless the proxy was stored after the notification.
THEOREM DeadServicesAreNoticed == Spec => []StaleProxyNoticed
<1>1. SInit => LinkInv
  BY ClientAssumption DEF SInit, Init, LinkInv, StaleProxyNoticed, Live, Agents
<1>2. ASSUME TypeInv, LinkInv, [SNext]_allVars PROVE LinkInv'
  <2>0. /\ pc \in [Agents -> CallSteps] /\ got \in [Agents -> Nat \cup {None}]
        /\ proxy \in Nat \cup {None} /\ watchers \in Nat /\ notices \in Nat /\ epoch \in Nat
        /\ None \notin Nat /\ Death \in Agents
    BY <1>2, ClientAssumption DEF TypeInv, TypeOK, CallOK, LinkOK, LifeOK, Agents
  <2> USE <1>2, <2>0 DEF LinkInv, StaleProxyNoticed, Live, Goto
  <2>1. ASSUME NEW t \in Agents, ConnectService(t) PROVE LinkInv'
    BY <2>1 DEF ConnectService, lifeVars
  <2>2. ASSUME NEW t \in Agents, AddDeathRecipient(t) PROVE LinkInv'
    BY <2>2 DEF AddDeathRecipient, lifeVars
  <2>3. ASSUME NEW t \in Agents, AssignProxy(t) PROVE LinkInv'
    BY <2>3 DEF AssignProxy, lifeVars
  <2>4. CASE OnRemoteDied
    BY <2>4 DEF OnRemoteDied, lifeVars
  <2>5. CASE Crash
    BY <2>5 DEF Crash, InService
  <2>6. CASE Restart
    BY <2>6 DEF Restart, linkVars, callVars
  <2>7. CASE /\ UNCHANGED <<linkVars, up, epoch>>
             /\ pc'[Death] = pc[Death]
             /\ \A t \in Agents : pc'[t] = "assign" => pc[t] = "assign"
    BY <2>7 DEF linkVars
  <2> QED BY <2>1, <2>2, <2>3, <2>4, <2>5, <2>6, <2>7, LinkChanges DEF Connect
<1>3. LinkInv => StaleProxyNoticed
  BY DEF LinkInv
<1> QED BY <1>1, <1>2, <1>3, TypeInit, TypeStep, PTL DEF Spec

-----------------------------------------------------------------------------
(* Nobody waits for somebody who waits for them *)

\* What the next step of a call waits for: entryMapMutex_, mutex_, proxyMutex_, the
\* answer to a NotifyTimer, timerInfoMutex_, or nothing.
CanProceed(t) ==
    \/ pc[t] \in {"check", "connect", "recipient", "assign", "second", "return", "store"}
    \/ pc[t] = "send" /\ op[t] \in TimerOps \cup ProxyOps \cup PlainOps
    \/ pc[t] = "plain" /\ op[t] \in PlainOps
    \/ pc[t] \in {"create", "find"} /\ EntryMapFree
    \/ pc[t] = "entry" /\ op[t] \in {"start", "stop", "destroy"} /\ MutexFree
    \/ pc[t] = "removed" /\ ProxyFree
    \/ pc[t] = "proxy" /\ op[t] \in ProxyOps /\ ProxyFree
    \/ pc[t] = "retrigger" /\ sending = None
    \/ pc[t] = "replied" /\ op[t] \in {"create", "destroy"} /\ inCallback = None
    \/ pc[t] = "complete" /\ js

\* What the looper waits for: proxyMutex_ before each alarm, the answer at the end.
LooperCanProceed ==
    /\ looping
    /\ IF due = {} THEN sending = None \/ \E t \in Threads : pc[t] = "retrigger" ELSE ProxyFree

\* A NotifyTimer in the application waits for timerInfoMutex_ alone, which the
\* callback that has it gives up.
CallbackCanProceed == notifies # {} \/ inCallback # None

\* While a call has not returned or the looper is not done, one of those who
\* have begun waits for nobody.  The guards of Progress, which CallsProceed says
\* is enabled; a permitted caller's wait in ProxyTimer counts as a wait.
NobodyStuck ==
    looping \/ (\E t \in Threads : pc[t] # "idle")
        => LooperCanProceed \/ CallbackCanProceed \/ \E t \in Threads : CanProceed(t)

\* The steps of plain requests and of the bindings belong to calls of that kind.
KindInv ==
    \A t \in Threads :
        /\ pc[t] = "plain" => op[t] \in PlainOps
        /\ pc[t] \in {"store", "complete"} => js

\* The locks have an order: callbacks in the application wait for nobody, then
\* come proxyMutex_, mutex_ and entryMapMutex_.
LEMMA LockOrder == TypeInv /\ KindInv => NobodyStuck
<1> SUFFICES ASSUME TypeInv, KindInv, ~CallbackCanProceed,
                    looping \/ \E t \in Threads : pc[t] # "idle"
             PROVE  LooperCanProceed \/ \E t \in Threads : CanProceed(t)
  BY DEF NobodyStuck
<1>1. sending = None /\ inCallback = None
  BY DEF CallbackCanProceed, TypeInv, UpInv
<1>2. ControlInv /\ pc \in [Agents -> CallSteps]
  BY DEF TypeInv, TypeOK, CallOK
<1>3. CASE \E t \in Threads : pc[t] = "retrigger"
  BY <1>1, <1>3 DEF CanProceed
<1>4. CASE \A t \in Threads : pc[t] # "retrigger"
  <2>1. ProxyFree
    BY <1>1, <1>4 DEF ProxyFree
  <2>2. CASE looping
    BY <1>1, <2>1, <2>2 DEF LooperCanProceed
  <2>3. CASE ~looping
    <3>1. MutexFree
      BY <2>3 DEF MutexFree
    <3>2. ASSUME NEW t \in Threads, pc[t] \in {"entry", "removed"} PROVE CanProceed(t)
      BY <1>2, <2>1, <3>1, <3>2 DEF CanProceed, ControlInv
    <3>3. CASE EntryMapFree
      <4>1. PICK t \in Threads : pc[t] # "idle"
        BY <2>3
      <4>2. pc[t] \in CallSteps
        BY <1>2 DEF Agents
      <4>3. op[t] \in TimerOps \cup ProxyOps \cup PlainOps
        BY <1>2, <4>1 DEF ControlInv
      <4>4. CanProceed(t)
        BY <1>1, <1>2, <2>1, <3>2, <3>3, <4>1, <4>2, <4>3, <1>4
           DEF CanProceed, CallSteps, InService, ControlInv, KindInv
      <4> QED BY <4>4
    <3> QED BY <3>2, <3>3 DEF EntryMapFree
  <2> QED BY <2>2, <2>3
<1> QED BY <1>3, <1>4

\* Every step keeps the kinds: nothing else comes to these steps or changes js.
LEMMA KindStep == TypeInv /\ KindInv /\ [SNext]_allVars => KindInv'
<1> SUFFICES ASSUME TypeInv, KindInv, [SNext]_allVars PROVE KindInv'
  OBVIOUS
<1>0. CallOK /\ ControlInv /\ Death \notin Threads
  BY ClientAssumption DEF TypeInv, TypeOK
<1>1. js' = js
  BY DEF SNext, Running, JsStep, Emplace, Store, Complete, CompleteDestroy, allVars
<1> DEFINE Else == CallSteps \ {"plain", "store", "complete"}
<1>2. ASSUME NEW t \in Agents, NEW step \in Else, Goto(t, step),
             \A u \in Threads \ {t} : op'[u] = op[u]
      PROVE  KindInv'
  BY <1>0, <1>1, <1>2 DEF Goto, CallOK, Agents, KindInv
<1>3. UNCHANGED callVars => KindInv'
  BY <1>1 DEF callVars, KindInv
<1>4. ASSUME NEW t \in Threads, ClientStep(t) PROVE KindInv'
  <2>1. CASE SendRequest(t)
    <3>1. op[t] \in TimerOps \cup ProxyOps \cup PlainOps
      BY <1>0, <2>1 DEF ControlInv, SendRequest
    <3>2. CASE OnRemoteRequest(t) /\ op' = op /\ op[t] \in PlainOps
      <4>1. Goto(t, "plain")
        BY <3>2 DEF OnRemoteRequest, TimerOps, ProxyOps, PlainOps
      <4> QED BY <1>0, <1>1, <3>2, <4>1 DEF Goto, CallOK, Agents, KindInv
    <3>3. CASE OnRemoteRequest(t) /\ op' = op /\ op[t] \notin PlainOps
      <4>1. \E step \in Else : Goto(t, step)
        BY <3>1, <3>3 DEF OnRemoteRequest, TimerOps, ProxyOps, CallSteps, InService
      <4> QED BY <1>2, <3>3, <4>1 DEF Agents
    <3>4. CASE Reply(t, FALSE)
      BY <1>2, <3>4 DEF Reply, CallSteps, Agents
    <3> QED BY <1>3, <2>1, <3>2, <3>3, <3>4 DEF SendRequest
  <2>2. CASE AnyCall(t) \/ CheckProxy(t) \/ SecondCheck(t)
    <3>1. \E step \in Else : Goto(t, step)
      BY <2>2 DEF AnyCall, Call, CheckProxy, SecondCheck, Reply, CallSteps, InService
    <3>2. \A u \in Threads \ {t} : op'[u] = op[u]
      BY <1>0, <2>2 DEF AnyCall, Call, CheckProxy, SecondCheck, Reply, CallOK
    <3> QED BY <1>2, <3>1, <3>2 DEF Agents
  <2>3. CASE InsertTimerCallbackInfo(t) \/ RemoveTimerCallbackInfo(t)
    BY <1>2, <2>3 DEF InsertTimerCallbackInfo, RemoveTimerCallbackInfo, CallSteps, Agents
  <2>4. CASE Return(t) \/ Complete(t) \/ CompleteDestroy(t)
    <3>1. Finish(t)
      BY <2>4 DEF Return, Complete, CompleteDestroy
    <3>2. \A u \in Threads \ {t} : op'[u] = op[u]
      BY <1>0, <3>1 DEF Finish, CallOK
    <3> QED BY <1>2, <3>1, <3>2 DEF Finish, CallSteps, Agents
  <2>5. CASE Emplace(t) \/ Store(t)
    <3>1. js /\ op' = op /\ \E step \in {"store", "complete"} : Goto(t, step)
      BY <2>5 DEF Emplace, Store, KindInv
    <3> QED BY <1>0, <1>1, <3>1 DEF Goto, CallOK, Agents, KindInv
  <2> QED BY <1>4, <2>1, <2>2, <2>3, <2>4, <2>5 DEF ClientStep, JsStep
<1>5. ASSUME NEW t \in Threads, ServiceStep(t) PROVE KindInv'
  <2>1. (op' = op /\ \E step \in Else : Goto(t, step)) \/ UNCHANGED callVars
    BY <1>5 DEF ServiceStep, Answer, OnCreateTimer, FindEntry, OnStartTimer, RemoveHandler,
       RemoveProxy, RefuseProxy, OnTimerProxy, Retrigger, RetriggerDone, Reply, CallSteps, InService
  <2> QED BY <1>2, <1>3, <2>1 DEF Agents
<1>6. ASSUME NEW t \in Agents, Connect(t) PROVE KindInv'
  BY <1>2, <1>6 DEF Connect, ConnectService, AddDeathRecipient, AssignProxy, CallSteps
<1>7. CASE OnRemoteDied
  BY <1>2, <1>7 DEF OnRemoteDied, CallSteps, Agents
<1>8. CASE Crash
  BY <1>0, <1>1, <1>8 DEF Crash, KindInv, Agents, CallOK, InService
<1>9. LooperStep \/ CallbackStep \/ Restart \/ UNCHANGED allVars => UNCHANGED callVars
  BY DEF LooperStep, TriggerTimers, DeliverTimer, LooperDone, CallbackStep, NotifyTimer,
     OnTriggerDone, Restart, allVars, vars
<1> QED BY <1>3, <1>4, <1>5, <1>6, <1>7, <1>8, <1>9, AllSteps

\* TimerManager, TimerCallback, TimeServiceClient: with entryMapMutex_, mutex_,
\* proxyMutex_ and timerInfoMutex_ and synchronous calls both ways between them,
\* while a call has not returned or the looper is not done, one of those who
\* have begun waits for nobody.
THEOREM NobodyWaitsForever == Spec => []NobodyStuck
<1>1. SInit => KindInv
  BY DEF SInit, Init, KindInv, Agents
<1> QED BY <1>1, TypeInit, TypeStep, KindStep, LockOrder, PTL DEF Spec

-----------------------------------------------------------------------------
(* A native application survives *)

\* Until the service crashes, connecting succeeds and the proxy is never taken
\* back; a thread about to store one has registered a death recipient, and so has
\* whoever stored the one that is there and whoever is about to store as well.
SurviveInv ==
    /\ NativeAppSurvives
    /\ crashes = 0 =>
           /\ up
           /\ proxy # None => watchers > 0
           /\ \A t \in Agents :
                  /\ got[t] # None => got[t] = epoch
                  /\ pc[t] \in {"recipient", "assign"} => got[t] # None
                  /\ pc[t] = "assign" => watchers > 0
                  /\ pc[t] = "assign" /\ proxy # None => watchers > 1
                  /\ pc[t] = "send" => proxy # None
           /\ \A t, u \in Agents :
                  t # u /\ pc[t] = "assign" /\ pc[u] = "assign" => watchers > 1

\* Who changes the connection or ends the application.  Nobody else comes to a
\* step that stores or uses the proxy, and nothing else but the bindings ends the
\* application.
LEMMA SurviveChanges ==
    ASSUME TypeInv, KindInv, [SNext]_allVars
    PROVE  \/ \E t \in Agents : Connect(t)
           \/ \E t \in Threads : SecondCheck(t) \/ SendRequest(t)
           \/ Crash \/ Restart
           \/ /\ UNCHANGED <<proxy, watchers, got, up, epoch, crashes>>
              /\ app' = app \/ js
              /\ \A t \in Agents : pc'[t] \in {"recipient", "assign", "send"} => pc'[t] = pc[t]
<1> DEFINE Steps == {"recipient", "assign", "send"}
           Other == /\ UNCHANGED <<proxy, watchers, got, up, epoch, crashes>>
                    /\ app' = app \/ js
                    /\ \A t \in Agents : pc'[t] \in Steps => pc'[t] = pc[t]
<1>0. CallOK /\ Death \notin Threads
  BY ClientAssumption DEF TypeInv, TypeOK
<1>1. ASSUME NEW t \in Agents, NEW step, step \notin Steps, Goto(t, step),
             UNCHANGED <<proxy, watchers, got, lifeVars>>, app' = app \/ js
      PROVE  Other
  BY <1>0, <1>1 DEF Goto, CallOK, lifeVars
<1>2. UNCHANGED <<linkVars, lifeVars, callVars, app>> => Other
  BY DEF linkVars, callVars, lifeVars
<1>3. ASSUME NEW t \in Threads, ClientStep(t), ~SecondCheck(t), ~SendRequest(t) PROVE Other
  <2>0. t \in Agents
    BY DEF Agents
  <2>1. UNCHANGED <<proxy, watchers, got, lifeVars>>
    BY <1>3 DEF ClientStep, AnyCall, Call, CheckProxy, InsertTimerCallbackInfo,
       RemoveTimerCallbackInfo, Return, JsStep, Emplace, Store, Complete, CompleteDestroy, linkVars
  <2>2. app' = app \/ js
    <3>1. CASE JsStep(t)
      BY <3>1 DEF JsStep, Emplace, Store, Complete, CompleteDestroy, KindInv
    <3>2. CASE AnyCall(t) \/ CheckProxy(t) \/ InsertTimerCallbackInfo(t)
               \/ RemoveTimerCallbackInfo(t) \/ Return(t)
      BY <3>2 DEF AnyCall, Call, CheckProxy, InsertTimerCallbackInfo, RemoveTimerCallbackInfo,
         Return, boundVars
    <3> QED BY <1>3, <3>1, <3>2 DEF ClientStep
  <2>3. \E step \in {"check", "connect", "second", "return", "idle", "store", "complete"} :
            Goto(t, step)
    BY <1>3 DEF ClientStep, AnyCall, Call, CheckProxy, InsertTimerCallbackInfo,
       RemoveTimerCallbackInfo, Return, JsStep, Emplace, Store, Complete, CompleteDestroy, Finish
  <2> QED BY <1>1, <2>0, <2>1, <2>2, <2>3
<1>4. ASSUME NEW t \in Threads, ServiceStep(t) PROVE Other
  <2>0. t \in Agents
    BY DEF Agents
  <2>1. UNCHANGED <<linkVars, lifeVars, app>>
    BY <1>4 DEF ServiceStep, Answer, OnCreateTimer, FindEntry, OnStartTimer, RemoveHandler,
       RemoveProxy, RefuseProxy, OnTimerProxy, Retrigger, RetriggerDone, boundVars
  <2>2. (\E step \in {"entry", "removed", "retrigger", "replied", "return"} : Goto(t, step))
        \/ UNCHANGED callVars
    BY <1>4 DEF ServiceStep, Answer, OnCreateTimer, FindEntry, OnStartTimer, RemoveHandler,
       RemoveProxy, RefuseProxy, OnTimerProxy, Retrigger, RetriggerDone, Reply
  <2>3. UNCHANGED <<proxy, watchers, got>>
    BY <2>1 DEF linkVars
  <2> QED BY <1>1, <1>2, <2>0, <2>1, <2>2, <2>3
<1>5. CASE OnRemoteDied
  BY <1>1, <1>5 DEF OnRemoteDied, Agents, boundVars
<1>6. LooperStep \/ CallbackStep \/ UNCHANGED allVars
          => UNCHANGED <<linkVars, lifeVars, callVars, app>>
  BY DEF LooperStep, TriggerTimers, DeliverTimer, LooperDone, CallbackStep, NotifyTimer,
     OnTriggerDone, allVars, vars, boundVars
<1> QED BY <1>2, <1>3, <1>4, <1>5, <1>6, AllSteps

\* Every step keeps the survival of a native application.
LEMMA SurviveStep == TypeInv /\ KindInv /\ SurviveInv /\ [SNext]_allVars => SurviveInv'
<1> SUFFICES ASSUME TypeInv, KindInv, SurviveInv, [SNext]_allVars PROVE SurviveInv'
  OBVIOUS
<1>0. /\ pc \in [Agents -> CallSteps] /\ got \in [Agents -> Nat \cup {None}]
      /\ proxy \in Nat \cup {None} /\ watchers \in Nat /\ epoch \in Nat /\ crashes \in Nat
      /\ None \notin Nat
  BY ClientAssumption DEF TypeInv, TypeOK, CallOK, LinkOK, LifeOK
<1>1. js' = js
  BY DEF SNext, Running, JsStep, Emplace, Store, Complete, CompleteDestroy, allVars
<1>2. app = "running" \/ UNCHANGED allVars
  BY DEF SNext, Running
<1> USE <1>0, <1>1 DEF SurviveInv, NativeAppSurvives
<1>3. CASE UNCHANGED allVars
  BY <1>3 DEF allVars, vars, linkVars, lifeVars, callVars, boundVars
<1>4. CASE app = "running"
  <2>1. ASSUME NEW t \in Agents, ConnectService(t) PROVE SurviveInv'
    BY <1>4, <2>1 DEF ConnectService, Goto, lifeVars, boundVars
  <2>2. ASSUME NEW t \in Agents, AddDeathRecipient(t) PROVE SurviveInv'
    BY <1>4, <2>2 DEF AddDeathRecipient, Goto, Live, lifeVars, boundVars
  <2>3. ASSUME NEW t \in Agents, AssignProxy(t) PROVE SurviveInv'
    <3>1. /\ pc' = [pc EXCEPT ![t] = IF t = Death THEN "idle" ELSE "second"]
          /\ proxy' = got[t] /\ got' = [got EXCEPT ![t] = None]
          /\ pc[t] = "assign" /\ watchers' = watchers /\ epoch' = epoch /\ up' = up
          /\ crashes' = crashes
      BY <2>3 DEF AssignProxy, Goto, lifeVars
    <3>2. app' = "crashed" => js \/ crashes > 0 \/ watchers > 1
      BY <1>4, <2>3 DEF AssignProxy, ProxyShared
    <3> QED BY <3>1, <3>2
  <2>4. ASSUME NEW t \in Threads, SecondCheck(t) PROVE SurviveInv'
    <3>1. t \in Agents
      BY DEF Agents
    <3> QED BY <1>4, <2>4, <3>1 DEF SecondCheck, Reply, Goto, linkVars, lifeVars, boundVars
  <2>5. ASSUME NEW t \in Threads, SendRequest(t) PROVE SurviveInv'
    <3>1. t \in Agents /\ pc[t] = "send"
      BY <2>5 DEF Agents, SendRequest
    <3>2. UNCHANGED <<proxy, watchers, got, up, epoch, crashes>>
      BY <2>5 DEF SendRequest, linkVars, lifeVars
    <3>3. app' = "running" \/ proxy = None
      BY <1>4, <2>5 DEF SendRequest
    <3>4. op[t] \in TimerOps \cup ProxyOps \cup PlainOps
      BY <3>1 DEF TypeInv, ControlInv
    <3>5. OnRemoteRequest(t) => \E step \in {"create", "find", "proxy", "plain"} : Goto(t, step)
      BY <3>4 DEF OnRemoteRequest, TimerOps, ProxyOps, PlainOps
    <3>6. (\E step \in {"create", "find", "proxy", "plain", "replied", "return"} : Goto(t, step))
          \/ UNCHANGED callVars
      BY <2>5, <3>5 DEF SendRequest, Reply
    <3>7. \A u \in Agents : pc'[u] \in {"recipient", "assign", "send"} => pc'[u] = pc[u]
      BY <3>1, <3>6 DEF Goto, callVars
    <3> QED BY <1>4, <3>1, <3>2, <3>3, <3>7
  <2>6. CASE Crash
    BY <1>4, <2>6 DEF Crash, boundVars
  <2>7. CASE Restart
    BY <1>4, <2>7 DEF Restart, linkVars, callVars, boundVars
  <2>8. CASE /\ UNCHANGED <<proxy, watchers, got, up, epoch, crashes>>
             /\ app' = app \/ js
             /\ \A t \in Agents : pc'[t] \in {"recipient", "assign", "send"} => pc'[t] = pc[t]
    BY <1>4, <2>8
  <2> QED BY <2>1, <2>2, <2>3, <2>4, <2>5, <2>6, <2>7, <2>8, SurviveChanges DEF Connect
<1> QED BY <1>2, <1>3, <1>4

\* CheckProxy, SecondCheck, AssignProxy, SendRequest: for any number of threads and
\* calls, a native application never calls through a proxy that is null or
\* released, unless the service has crashed or two threads connected at once.
THEOREM NativeApplicationsSurvive == Spec => []NativeAppSurvives
<1>1. SInit => KindInv /\ SurviveInv
  BY ClientAssumption DEF SInit, Init, KindInv, SurviveInv, NativeAppSurvives, Agents
<1>2. SurviveInv => NativeAppSurvives
  BY DEF SurviveInv
<1> QED BY <1>1, <1>2, TypeInit, TypeStep, KindStep, SurviveStep, PTL DEF Spec

=============================================================================
