----------------------------- MODULE TimerClient -----------------------------
(***************************************************************************)
(* An application with timers and the service it talks to: the native      *)
(* client (time_service_client.cpp, timer_call_back.cpp), the proxies and  *)
(* stubs in between, and of the service what they depend on: which timers  *)
(* it has, and the three mutexes of TimerManager a callback is made under. *)
(*                                                                         *)
(* Calls are synchronous both ways.  A thread of the application runs from *)
(* "check" to "send" in the client, from there to "retrigger" on a binder *)
(* thread of the service, and from "replied" to "return" in the client     *)
(* again.  The service calls NotifyTimer, with its mutexes held, and a     *)
(* binder thread of the application runs OnTrigger with timerInfoMutex_    *)
(* held.  The service may crash and come back; the client learns of it by  *)
(* a death notification.                                                   *)
(***************************************************************************)
EXTENDS Integers

CONSTANTS
    Threads,     \* threads of the application
    Death,       \* its thread that runs the death recipients
    Ids,         \* what random_ of TimerManager gives
    None,
    MaxCalls,    \* bound: calls of the application
    MaxPasses,   \* bound: passes of the looper that trigger something
    MaxCrashes   \* bound: crashes of the service

ASSUME ClientAssumption ==
    /\ Death \notin Threads /\ None \notin Ids /\ None \notin Nat
    /\ MaxCalls \in Nat /\ MaxPasses \in Nat /\ MaxCrashes \in Nat

VARIABLES
    up, epoch,       \* the service's process: whether it runs, and which one it is
    entries,         \* timerEntryMap_
    alarms,          \* the timers in alarmBatches_
    proxied,         \* the application's uid is in proxyUids_
    held,            \* proxyMap_ of the uid
    looping,         \* the looper has mutex_
    due,             \* what is left of its triggerList
    retrig,          \* what is left for ProxyTimer or ResetAllProxy to trigger
    sending,         \* the timer whose NotifyTimer the service waits for
    notifies,        \* the NotifyTimer calls that have reached the application
    inCallback,      \* the one that has timerInfoMutex_
    triggered,       \* and whether it runs OnTrigger
    table,           \* TimerInfoMap_
    proxy,           \* timeServiceProxy_: the process it leads to
    watchers,        \* death recipients registered with the process that runs
    notices,         \* death notifications not handled yet
    pc, op, id, ok,  \* a thread's call: where it is, which one, on what, its result
    got,             \* result of ConnectService
    known,           \* the ids the application has been given
    app,             \* whether the application runs
    begun, passes, crashes,
    destroyed,       \* ghost: ids whose DestroyTimer succeeded and that were not given again
    raced            \* ghost: the proxy was stored after its process had died

serviceVars == <<entries, alarms, proxied, held, looping, due, retrig, sending>>
lifeVars    == <<up, epoch, crashes>>
notifyVars  == <<notifies, inCallback, triggered>>
linkVars    == <<proxy, watchers, notices, got, raced>>
tableVars   == <<table, known, destroyed>>
callVars    == <<pc, op, id, ok>>
boundVars   == <<app, begun, passes>>
vars == <<serviceVars, lifeVars, notifyVars, linkVars, tableVars, callVars, boundVars>>

-----------------------------------------------------------------------------
(* Helpers *)

Agents == Threads \cup {Death}

Live(e) == up /\ e = epoch

\* The steps of a request in the service.
InService == {"plain", "create", "find", "entry", "removed", "proxy", "retrigger"}

\* The kinds of requests.
TimerOps == {"create", "start", "stop", "destroy"}
ProxyOps == {"proxyOn", "proxyOff", "reset"}
PlainOps == {"set", "get", "network"}

\* entryMapMutex_, mutex_ and proxyMutex_ are free.
EntryMapFree == \A t \in Threads : pc[t] \notin {"entry", "removed"}
MutexFree    == ~looping
ProxyFree    == sending = None /\ \A t \in Threads : pc[t] # "retrigger"

Goto(t, step) == pc' = [pc EXCEPT ![t] = step]

\* The answer to a request, or the lack of one.  CreateTimer and DestroyTimer
\* have more to do when it is good.
Reply(t, result) ==
    /\ Goto(t, IF result /\ op[t] \in {"create", "destroy"} THEN "replied" ELSE "return")
    /\ ok' = [ok EXCEPT ![t] = result]
    /\ UNCHANGED <<op, id>>

-----------------------------------------------------------------------------
(* The calls *)

Call(t, o, i) ==
    /\ pc[t] = "idle" /\ begun < MaxCalls
    /\ begun' = begun + 1
    /\ Goto(t, "check")
    /\ op' = [op EXCEPT ![t] = o]
    /\ id' = [id EXCEPT ![t] = i]
    /\ UNCHANGED <<serviceVars, lifeVars, notifyVars, linkVars, tableVars, ok, app, passes>>

CreateTimer(t) == Call(t, "create", None)
StartTimer(t) == \E i \in known : Call(t, "start", i)
StopTimer(t) == \E i \in known : Call(t, "stop", i)
DestroyTimer(t) == \E i \in known : Call(t, "destroy", i)
ProxyTimer(t) == \E o \in {"proxyOn", "proxyOff"} : Call(t, o, None)
ResetAllProxy(t) == Call(t, "reset", None)

\* The calls that touch nothing of this module but the connection.
SetTime(t) == Call(t, "set", None)
SetTimeZone(t) == Call(t, "set", None)
GetTimeZone(t) == Call(t, "get", None)
GetTimes(t) == Call(t, "get", None)
NetworkTimeStatus(t) == Call(t, "network", None)

\* The first look at timeServiceProxy_.
CheckProxy(t) ==
    /\ pc[t] = "check"
    /\ Goto(t, IF proxy = None THEN "connect" ELSE "second")
    /\ UNCHANGED <<serviceVars, lifeVars, notifyVars, linkVars, tableVars, op, id, ok, boundVars>>

\* Mutant: the proxy is reset before the service is asked for.
ConnectResets(t) ==
    /\ pc[t] = "connect"
    /\ proxy' = None
    /\ raced' = FALSE
    /\ got' = [got EXCEPT ![t] = IF up THEN epoch ELSE None]
    /\ Goto(t, IF up THEN "recipient" ELSE "assign")
    /\ UNCHANGED <<serviceVars, lifeVars, notifyVars, watchers, notices, tableVars, op, id, ok,
                   boundVars>>

\* ConnectService up to GetSystemAbility.
ConnectService(t) ==
    /\ pc[t] = "connect"
    /\ got' = [got EXCEPT ![t] = IF up THEN epoch ELSE None]
    /\ Goto(t, IF up THEN "recipient" ELSE "assign")
    /\ UNCHANGED <<serviceVars, lifeVars, notifyVars, proxy, watchers, notices, raced, tableVars,
                   op, id, ok, boundVars>>

\* Mutant: no death recipient.
NoDeathRecipient(t) ==
    /\ pc[t] = "recipient"
    /\ Goto(t, "assign")
    /\ UNCHANGED <<serviceVars, lifeVars, notifyVars, linkVars, tableVars, op, id, ok, boundVars>>

\* AddDeathRecipient has no effect on an object that is dead already.
AddDeathRecipient(t) ==
    /\ pc[t] = "recipient"
    /\ watchers' = IF Live(got[t]) THEN watchers + 1 ELSE watchers
    /\ Goto(t, "assign")
    /\ UNCHANGED <<serviceVars, lifeVars, notifyVars, proxy, notices, got, raced, tableVars,
                   op, id, ok, boundVars>>

\* Storing releases the proxy that was there: one is, and another thread is about
\* to call through it or to store as well.
ProxyShared(t) == proxy # None /\ \E u \in Agents \ {t} : pc[u] \in {"assign", "send"}

\* timeServiceProxy_ = ConnectService(), in a call and in OnRemoteSaDied.  A proxy
\* that others are using may be released under them.
AssignProxy(t) ==
    /\ pc[t] = "assign"
    /\ proxy' = got[t]
    /\ raced' = (got[t] # None /\ ~Live(got[t]))
    /\ got' = [got EXCEPT ![t] = None]
    /\ Goto(t, IF t = Death THEN "idle" ELSE "second")
    /\ app' \in IF ProxyShared(t) THEN {"running", "crashed"} ELSE {app}
    /\ UNCHANGED <<serviceVars, lifeVars, notifyVars, watchers, notices, tableVars, op, id, ok,
                   begun, passes>>

\* The second look.
SecondCheck(t) ==
    /\ pc[t] = "second"
    /\ IF proxy = None THEN Reply(t, FALSE) ELSE Goto(t, "send") /\ UNCHANGED <<op, id, ok>>
    /\ UNCHANGED <<serviceVars, lifeVars, notifyVars, linkVars, tableVars, boundVars>>

\* OnRemoteRequest finds the handler in memberFuncMap_.
OnRemoteRequest(t) ==
    Goto(t, CASE op[t] = "create" -> "create"
              [] op[t] \in TimerOps \ {"create"} -> "find"
              [] op[t] \in ProxyOps -> "proxy"
              [] op[t] \in PlainOps -> "plain")

\* A request: by a pointer that another thread may have set to null since; not
\* sent when it cannot be written or the process is dead; or received.
SendRequest(t) ==
    /\ pc[t] = "send"
    /\ \/ /\ proxy = None
          /\ app' = "crashed"
          /\ UNCHANGED callVars
       \/ /\ proxy # None
          /\ Reply(t, FALSE)
          /\ UNCHANGED app
       \/ /\ Live(proxy)
          /\ OnRemoteRequest(t)
          /\ UNCHANGED <<op, id, ok, app>>
    /\ UNCHANGED <<serviceVars, lifeVars, notifyVars, linkVars, tableVars, begun, passes>>

\* The functions of the proxy, which differ in what they write.
RequestTimer(t) == op[t] \in TimerOps /\ SendRequest(t)
RequestProxy(t) == op[t] \in ProxyOps /\ SendRequest(t)
RequestSet(t) == op[t] = "set" /\ SendRequest(t)
RequestGet(t) == op[t] = "get" /\ SendRequest(t)
RequestNetwork(t) == op[t] = "network" /\ SendRequest(t)

\* OnRemoteDied: OnRemoteSaDied connects again.
OnRemoteDied ==
    /\ notices > 0 /\ pc[Death] = "idle"
    /\ notices' = notices - 1
    /\ Goto(Death, "connect")
    /\ UNCHANGED <<serviceVars, lifeVars, notifyVars, proxy, watchers, got, raced, tableVars,
                   op, id, ok, boundVars>>

-----------------------------------------------------------------------------
(* The service's side of a call *)

\* A handler that answers ERR_OK or an error.
Answer(t, results) ==
    /\ pc[t] = "plain"
    /\ \E result \in results : Reply(t, result)
    /\ UNCHANGED <<serviceVars, lifeVars, notifyVars, linkVars, tableVars, boundVars>>

OnSet(t) == op[t] = "set" /\ Answer(t, BOOLEAN)
OnGet(t) == op[t] = "get" /\ Answer(t, BOOLEAN)
OnNetworkTimeStatus(t) == op[t] = "network" /\ Answer(t, {TRUE})

\* Mutant: the answer 0 is taken for an id.
CreateUnchecked(t) ==
    /\ pc[t] = "create" /\ EntryMapFree
    /\ \E i \in (Ids \ entries) \cup {None} :
           /\ entries' = (entries \cup {i}) \ {None}
           /\ id' = [id EXCEPT ![t] = i]
    /\ ok' = [ok EXCEPT ![t] = TRUE]
    /\ Goto(t, "replied")
    /\ UNCHANGED <<alarms, proxied, held, looping, due, retrig, sending, lifeVars, notifyVars,
                   linkVars, tableVars, op, boundVars>>

\* OnCreateTimer: a new entry, or none when there is no timer manager.
OnCreateTimer(t) ==
    /\ pc[t] = "create" /\ EntryMapFree
    /\ \/ \E i \in Ids \ entries :
              /\ entries' = entries \cup {i}
              /\ id' = [id EXCEPT ![t] = i]
              /\ ok' = [ok EXCEPT ![t] = TRUE]
              /\ Goto(t, "replied")
              /\ UNCHANGED op
       \/ Reply(t, FALSE) /\ UNCHANGED entries
    /\ UNCHANGED <<alarms, proxied, held, looping, due, retrig, sending, lifeVars, notifyVars,
                   linkVars, tableVars, boundVars>>

\* StartTimer, StopTimer and DestroyTimer lock the map and look for the entry.
FindEntry(t) ==
    /\ pc[t] = "find" /\ EntryMapFree
    /\ IF id[t] \in entries
       THEN Goto(t, "entry") /\ UNCHANGED <<op, id, ok>>
       ELSE Reply(t, FALSE)
    /\ UNCHANGED <<serviceVars, lifeVars, notifyVars, linkVars, tableVars, boundVars>>

OnStartTimer(t) ==
    /\ pc[t] = "entry" /\ op[t] = "start" /\ MutexFree
    /\ alarms' = alarms \cup {id[t]}
    /\ Reply(t, TRUE)
    /\ UNCHANGED <<entries, proxied, held, looping, due, retrig, sending, lifeVars, notifyVars,
                   linkVars, tableVars, boundVars>>

\* StopTimerInner: RemoveHandler,
RemoveHandler(t) ==
    /\ pc[t] = "entry" /\ op[t] \in {"stop", "destroy"} /\ MutexFree
    /\ alarms' = alarms \ {id[t]}
    /\ Goto(t, "removed")
    /\ UNCHANGED <<entries, proxied, held, looping, due, retrig, sending, lifeVars, notifyVars,
                   linkVars, tableVars, op, id, ok, boundVars>>

\* then RemoveProxy, which removes from a copy of the held alarms and forgets
\* them only when the copy is empty, then the entry of a destroyed timer.
RemoveProxy(t) ==
    /\ pc[t] = "removed" /\ ProxyFree
    /\ held' = IF held \subseteq {id[t]} THEN {} ELSE held
    /\ entries' = IF op[t] = "destroy" THEN entries \ {id[t]} ELSE entries
    /\ Reply(t, TRUE)
    /\ UNCHANGED <<alarms, proxied, looping, due, retrig, sending, lifeVars, notifyVars, linkVars,
                   tableVars, boundVars>>

\* A caller without permission is refused with an error code that is returned
\* as a bool, and so hears of success.
RefuseProxy(t) ==
    /\ pc[t] = "proxy"
    /\ Reply(t, TRUE)
    /\ UNCHANGED <<serviceVars, lifeVars, notifyVars, linkVars, tableVars, boundVars>>

\* ProxyTimer and ResetAllProxy: what was held is triggered under proxyMutex_,
\* or forgotten.
OnTimerProxy(t) ==
    /\ pc[t] = "proxy" /\ ProxyFree
    /\ \/ /\ op[t] = "proxyOn"
          /\ proxied' = TRUE
          /\ Reply(t, TRUE)
          /\ UNCHANGED <<held, retrig>>
       \/ /\ op[t] = "proxyOff" /\ ~proxied
          /\ Reply(t, FALSE)
          /\ UNCHANGED <<proxied, held, retrig>>
       \/ /\ op[t] = "proxyOff" /\ proxied
          /\ proxied' = FALSE
          /\ held' = {}
          /\ Reply(t, TRUE)
          /\ UNCHANGED retrig
       \/ /\ op[t] = "reset" \/ (op[t] = "proxyOff" /\ proxied)
          /\ proxied' = FALSE
          /\ retrig' = held
          /\ held' = {}
          /\ Goto(t, "retrigger")
          /\ UNCHANGED <<op, id, ok>>
    /\ UNCHANGED <<entries, alarms, looping, due, sending, lifeVars, notifyVars, linkVars, tableVars,
                   boundVars>>

\* NotifyTimer of the callback's proxy.  When the request cannot be sent the
\* trigger is lost.
SendNotify(i) ==
    /\ \/ sending' = i /\ notifies' = notifies \cup {<<epoch, i>>}
       \/ UNCHANGED <<sending, notifies>>
    /\ UNCHANGED <<inCallback, triggered>>

Retrigger(t) ==
    /\ pc[t] = "retrigger" /\ sending = None
    /\ \E i \in retrig :
           /\ retrig' = retrig \ {i}
           /\ SendNotify(i)
    /\ UNCHANGED <<entries, alarms, proxied, held, looping, due, lifeVars, linkVars, tableVars,
                   callVars, boundVars>>

RetriggerDone(t) ==
    /\ pc[t] = "retrigger" /\ sending = None /\ retrig = {}
    /\ Reply(t, TRUE)
    /\ UNCHANGED <<serviceVars, lifeVars, notifyVars, linkVars, tableVars, boundVars>>

-----------------------------------------------------------------------------
(* The looper *)

\* TriggerTimersLocked: some alarms are due, and some of them repeat.
TriggerTimers ==
    /\ up /\ MutexFree /\ passes < MaxPasses
    /\ passes' = passes + 1
    /\ looping' = TRUE
    /\ \E S \in SUBSET alarms \ {{}}, R \in SUBSET alarms :
           /\ R \subseteq S
           /\ due' = S
           /\ alarms' = (alarms \ S) \cup R
    /\ UNCHANGED <<entries, proxied, held, retrig, sending, lifeVars, notifyVars, linkVars,
                   tableVars, callVars, app, begun>>

\* CallbackAlarmIfNeed, for one alarm.
DeliverTimer ==
    /\ looping /\ ProxyFree
    /\ \E i \in due :
           /\ due' = due \ {i}
           /\ IF proxied
              THEN held' = held \cup {i} /\ UNCHANGED <<sending, notifyVars>>
              ELSE SendNotify(i) /\ UNCHANGED held
    /\ UNCHANGED <<entries, alarms, proxied, looping, retrig, lifeVars, linkVars, tableVars,
                   callVars, boundVars>>

\* The looper gives up mutex_, when its last NotifyTimer has returned.
LooperDone ==
    /\ looping /\ due = {}
    /\ sending = None \/ \E t \in Threads : pc[t] = "retrigger"
    /\ looping' = FALSE
    /\ UNCHANGED <<entries, alarms, proxied, held, due, retrig, sending, lifeVars, notifyVars,
                   linkVars, tableVars, callVars, boundVars>>

-----------------------------------------------------------------------------
(* Callbacks in the application *)

NotifyTimer(n) ==
    /\ n \in notifies /\ inCallback = None
    /\ inCallback' = n
    /\ triggered' = (n[2] \in table)
    /\ UNCHANGED <<serviceVars, lifeVars, notifies, linkVars, tableVars, callVars, boundVars>>

\* Mutant: OnTrigger calls StopTimer, which waits for mutex_.
OnTriggerStops ==
    /\ inCallback # None
    /\ Live(inCallback[1]) => MutexFree
    /\ notifies' = notifies \ {inCallback}
    /\ sending' = IF Live(inCallback[1]) THEN None ELSE sending
    /\ inCallback' = None
    /\ triggered' = FALSE
    /\ UNCHANGED <<entries, alarms, proxied, held, looping, due, retrig, lifeVars, linkVars,
                   tableVars, callVars, boundVars>>

\* OnTrigger returns; of a JavaScript timer it has queued work for the event
\* loop.  The service goes on.
OnTriggerDone ==
    /\ inCallback # None
    /\ notifies' = notifies \ {inCallback}
    /\ sending' = IF Live(inCallback[1]) THEN None ELSE sending
    /\ inCallback' = None
    /\ triggered' = FALSE
    /\ UNCHANGED <<entries, alarms, proxied, held, looping, due, retrig, lifeVars, linkVars,
                   tableVars, callVars, boundVars>>

-----------------------------------------------------------------------------
(* The end of a call *)

\* CreateTimer enters the callback, unless one with the id of an earlier
\* process's timer is there; the call fails then and the timer stays.
InsertTimerCallbackInfo(t) ==
    /\ pc[t] = "replied" /\ op[t] = "create" /\ inCallback = None
    /\ IF id[t] \in table
       THEN ok' = [ok EXCEPT ![t] = FALSE] /\ UNCHANGED <<table, destroyed>>
       ELSE /\ table' = table \cup {id[t]}
            /\ destroyed' = destroyed \ {id[t]}
            /\ UNCHANGED ok
    /\ Goto(t, "return")
    /\ UNCHANGED <<serviceVars, lifeVars, notifyVars, linkVars, known, op, id, boundVars>>

\* Mutant: DestroyTimer leaves the entry.
KeepTimerCallbackInfo(t) ==
    /\ pc[t] = "replied" /\ op[t] = "destroy"
    /\ destroyed' = destroyed \cup {id[t]}
    /\ Goto(t, "return")
    /\ UNCHANGED <<serviceVars, lifeVars, notifyVars, linkVars, table, known, op, id, ok, boundVars>>

RemoveTimerCallbackInfo(t) ==
    /\ pc[t] = "replied" /\ op[t] = "destroy" /\ inCallback = None
    /\ table' = table \ {id[t]}
    /\ destroyed' = destroyed \cup {id[t]}
    /\ Goto(t, "return")
    /\ UNCHANGED <<serviceVars, lifeVars, notifyVars, linkVars, known, op, id, ok, boundVars>>

\* What a finished call leaves behind.
Finish(t) ==
    /\ Goto(t, "idle")
    /\ known' = IF op[t] = "create" /\ ok[t] THEN known \cup {id[t]} ELSE known
    /\ op' = [op EXCEPT ![t] = None]
    /\ id' = [id EXCEPT ![t] = None]
    /\ ok' = [ok EXCEPT ![t] = FALSE]

Return(t) ==
    /\ pc[t] = "return"
    /\ Finish(t)
    /\ UNCHANGED <<serviceVars, lifeVars, notifyVars, linkVars, table, destroyed, boundVars>>

-----------------------------------------------------------------------------
(* Crashes of the service *)

Crash ==
    /\ up /\ crashes < MaxCrashes
    /\ crashes' = crashes + 1
    /\ up' = FALSE
    /\ entries' = {} /\ alarms' = {} /\ proxied' = FALSE /\ held' = {}
    /\ looping' = FALSE /\ due' = {} /\ retrig' = {} /\ sending' = None
    /\ notices' = notices + watchers
    /\ watchers' = 0
    /\ pc' = [t \in Agents |-> IF pc[t] \in InService THEN "return" ELSE pc[t]]
    /\ ok' = [t \in Threads |-> IF pc[t] \in InService THEN FALSE ELSE ok[t]]
    /\ UNCHANGED <<epoch, notifyVars, proxy, got, raced, tableVars, op, id, boundVars>>

Restart ==
    /\ ~up
    /\ up' = TRUE
    /\ epoch' = epoch + 1
    /\ UNCHANGED <<serviceVars, crashes, notifyVars, linkVars, tableVars, callVars, boundVars>>

-----------------------------------------------------------------------------
(* The specification *)

\* An application that has just started, or one in the middle of its life: it is
\* connected and has created the timers of Ids, which are started, or have
\* triggered and are held by a proxy.
Init ==
    /\ up = TRUE /\ epoch = 1 /\ crashes = 0
    /\ entries \in {{}, Ids} /\ table = entries /\ known = entries
    /\ held \in {{}, entries} /\ alarms = entries \ held /\ proxied = (held # {})
    /\ proxy = (IF entries = {} THEN None ELSE epoch)
    /\ watchers = (IF entries = {} THEN 0 ELSE 1)
    /\ looping = FALSE /\ due = {} /\ retrig = {} /\ sending = None
    /\ notifies = {} /\ inCallback = None /\ triggered = FALSE
    /\ destroyed = {} /\ notices = 0 /\ raced = FALSE
    /\ got = [t \in Agents |-> None]
    /\ pc = [t \in Agents |-> "idle"]
    /\ op = [t \in Threads |-> None] /\ id = [t \in Threads |-> None]
    /\ ok = [t \in Threads |-> FALSE]
    /\ app = "running" /\ begun = 0 /\ passes = 0

\* The calls that have a function in JavaScript, and those that do not.
Bound(t) ==
    \/ CreateTimer(t) \/ StartTimer(t) \/ StopTimer(t) \/ DestroyTimer(t)
    \/ SetTime(t) \/ SetTimeZone(t) \/ GetTimeZone(t) \/ GetTimes(t)

Unbound(t) == ProxyTimer(t) \/ ResetAllProxy(t) \/ NetworkTimeStatus(t)

Connect(t) == ConnectService(t) \/ AddDeathRecipient(t) \/ AssignProxy(t)

\* A call from its first step to its last.
Proceed(t) ==
    \/ CheckProxy(t) \/ Connect(t) \/ SecondCheck(t)
    \/ RequestTimer(t) \/ RequestProxy(t) \/ RequestSet(t) \/ RequestGet(t) \/ RequestNetwork(t)
    \/ OnSet(t) \/ OnGet(t) \/ OnNetworkTimeStatus(t)
    \/ OnCreateTimer(t) \/ FindEntry(t)
    \/ OnStartTimer(t) \/ RemoveHandler(t) \/ RemoveProxy(t) \/ RefuseProxy(t) \/ OnTimerProxy(t)
    \/ Retrigger(t) \/ RetriggerDone(t)
    \/ InsertTimerCallbackInfo(t) \/ RemoveTimerCallbackInfo(t)

DeathStep == OnRemoteDied \/ Connect(Death)

LooperStep == TriggerTimers \/ DeliverTimer \/ LooperDone

CallbackStep == (\E n \in notifies : NotifyTimer(n)) \/ OnTriggerDone

\* Everything but the return of a call, and the calls bindings are for.
Step ==
    \/ \E t \in Threads : Unbound(t) \/ Proceed(t)
    \/ DeathStep
    \/ LooperStep
    \/ CallbackStep
    \/ Crash
    \/ Restart

-----------------------------------------------------------------------------
(* Properties *)

\* "store" and "complete" are steps of the JavaScript bindings.
CallSteps ==
    {"idle", "check", "connect", "recipient", "assign", "second", "send", "replied", "return",
     "store", "complete"} \cup InService

LifeOK == up \in BOOLEAN /\ epoch \in Nat /\ crashes \in Nat

ServiceOK ==
    /\ entries \subseteq Ids /\ alarms \subseteq entries /\ held \subseteq Ids
    /\ due \subseteq Ids /\ retrig \subseteq Ids /\ sending \in Ids \cup {None}
    /\ proxied \in BOOLEAN /\ looping \in BOOLEAN

NotifyOK ==
    /\ notifies \subseteq Nat \X Ids /\ inCallback \in notifies \cup {None}
    /\ triggered \in BOOLEAN

LinkOK ==
    /\ proxy \in Nat \cup {None} /\ got \in [Agents -> Nat \cup {None}]
    /\ watchers \in Nat /\ notices \in Nat /\ raced \in BOOLEAN

TableOK == table \subseteq Ids /\ known \subseteq Ids /\ destroyed \subseteq Ids

CallOK ==
    /\ pc \in [Agents -> CallSteps]
    /\ op \in [Threads -> TimerOps \cup ProxyOps \cup PlainOps \cup {None}]
    /\ id \in [Threads -> Ids \cup {None}] /\ ok \in [Threads -> BOOLEAN]

BoundOK == app \in {"running", "crashed"} /\ begun \in Nat /\ passes \in Nat

\* Types; only existing timers are started, and what the service waits for has
\* reached the application.
TypeOK ==
    /\ LifeOK /\ ServiceOK /\ NotifyOK /\ LinkOK /\ TableOK /\ CallOK /\ BoundOK
    /\ sending # None => <<epoch, sending>> \in notifies

\* NotifyTimer, RemoveTimerCallbackInfo: once DestroyTimer has succeeded,
\* OnTrigger of the timer is not running and does not run again, not even for
\* an alarm the service still holds for a proxied application.
NoTriggerAfterDestroy ==
    inCallback # None /\ triggered => inCallback[2] \notin destroyed

\* ConnectService, OnRemoteSaDied: a client whose proxy leads to a dead process
\* is about to be told, unless the proxy was stored after its process had died.
StaleProxyNoticed ==
    proxy # None /\ ~Live(proxy) => notices > 0 \/ pc[Death] # "idle" \/ raced
=============================================================================
