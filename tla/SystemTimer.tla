----------------------------- MODULE SystemTimer -----------------------------
(***************************************************************************)
(* The JavaScript bindings of the timers (system_timer.cpp) and of the     *)
(* time (js_systemtime.cpp) over the native client of TimerClient.         *)
(*                                                                         *)
(* A call of JavaScript is an asynchronous work: its arguments are read,   *)
(* its first function makes the native call on a thread of the pool (an    *)
(* element of Threads here), its second runs on the JavaScript thread,     *)
(* settles the promise or calls back.  createTimer keeps its record in a   *)
(* vector that pool threads append to and the JavaScript thread erases     *)
(* from.  An application without bindings (js = FALSE) uses the client     *)
(* directly.                                                               *)
(***************************************************************************)
EXTENDS TimerClient, SequencesExt

VARIABLES
    js,        \* the application uses the bindings
    records,   \* asyncCallbackInfoCreateInfo: the timers of the records, None for nullptr
    slot,      \* where a pool thread is about to append
    freed      \* timers whose record has been deleted

jsVars == <<records, slot, freed>>
allVars == <<vars, js, jsVars>>

\* The functions of the two JavaScript modules.  With arguments they refuse they
\* reject at once; otherwise a work is queued, which begins with the native call.
JsCreateTimer(t) == js /\ CreateTimer(t)
JsStartTimer(t) == js /\ StartTimer(t)
JsStopTimer(t) == js /\ StopTimer(t)
JsDestroyTimer(t) == js /\ DestroyTimer(t)
JSSystemTimeSetTime(t) == js /\ SetTime(t)
JSSystemTimeSetTimeZone(t) == js /\ SetTimeZone(t)
JSSystemTimeGetTimes(t) == js /\ GetTimes(t)
JSSystemTimeGetTimeZone(t) == js /\ GetTimeZone(t)

JsCall(t) ==
    \/ JsCreateTimer(t) \/ JsStartTimer(t) \/ JsStopTimer(t) \/ JsDestroyTimer(t)
    \/ JSSystemTimeSetTime(t) \/ JSSystemTimeSetTimeZone(t)
    \/ JSSystemTimeGetTimes(t) \/ JSSystemTimeGetTimeZone(t)

\* The work of createTimer appends its record: it finds the end,
Emplace(t) ==
    /\ js /\ pc[t] = "return" /\ op[t] = "create" /\ ok[t]
    /\ slot' = [slot EXCEPT ![t] = Len(records)]
    /\ Goto(t, "store")
    /\ UNCHANGED <<serviceVars, lifeVars, notifyVars, linkVars, tableVars, op, id, ok, boundVars,
                   js, records, freed>>

\* and stores.  When the vector has changed since, the record is lost or the
\* vector's memory is used after it was freed.
Store(t) ==
    /\ pc[t] = "store"
    /\ slot' = [slot EXCEPT ![t] = 0]
    /\ Goto(t, "complete")
    /\ \/ /\ slot[t] = Len(records)
          /\ records' = Append(records, id[t])
          /\ UNCHANGED app
       \/ /\ slot[t] # Len(records)
          /\ app' \in {"running", "crashed"}
          /\ UNCHANGED records
    /\ UNCHANGED <<serviceVars, lifeVars, notifyVars, linkVars, tableVars, op, id, ok, begun, passes,
                   js, freed>>

\* The second function of a work settles the promise; createTimer's uses the
\* record, which a destroyTimer may have deleted.
Complete(t) ==
    /\ js
    /\ \/ pc[t] = "complete"
       \/ pc[t] = "return" /\ ~(op[t] \in {"create", "destroy"} /\ ok[t])
    /\ Finish(t)
    /\ app' \in IF op[t] = "create" /\ ok[t] /\ id[t] \in freed
                THEN {"running", "crashed"} ELSE {"running"}
    /\ UNCHANGED <<serviceVars, lifeVars, notifyVars, linkVars, table, destroyed, begun, passes,
                   js, jsVars>>

\* Where the loop of destroyTimer looks first at a null pointer or at the
\* record it searches, 0 for nowhere.
FirstHit(s, i) ==
    IF \E k \in 1..Len(s) : s[k] \in {None, i}
    THEN CHOOSE k \in 1..Len(s) : s[k] \in {None, i} /\ \A j \in 1..(k - 1) : s[j] \notin {None, i}
    ELSE 0

\* The second function of destroyTimer.  erase moves on to the next record,
\* and that one is deleted and its pointer cleared.  A record at the end takes
\* the loop past the end of the vector.
CompleteDestroy(t) ==
    LET k == FirstHit(records, id[t])
        rest == RemoveAt(records, k)
    IN  /\ js /\ pc[t] = "return" /\ op[t] = "destroy" /\ ok[t]
        /\ Finish(t)
        /\ \/ /\ k = 0
              /\ UNCHANGED <<app, records, freed>>
           \/ /\ k # 0 /\ (records[k] = None \/ k = Len(records))
              /\ app' = "crashed"
              /\ UNCHANGED <<records, freed>>
           \/ /\ k # 0 /\ records[k] # None /\ k # Len(records)
              /\ records' = [rest EXCEPT ![k] = None]
              /\ freed' = freed \cup ({rest[k]} \ {None})
              /\ app' = IF \E j \in (k + 1)..Len(rest) : rest[j] = None
                        THEN "crashed" ELSE "running"
        /\ UNCHANGED <<serviceVars, lifeVars, notifyVars, linkVars, table, destroyed, begun, passes,
                       js, slot>>

JsStep(t) == Emplace(t) \/ Store(t) \/ Complete(t) \/ CompleteDestroy(t)

SInit ==
    /\ Init
    /\ js \in BOOLEAN
    /\ records \in IF js THEN SetToSeqs(entries) ELSE {<<>>}
    /\ slot = [t \in Threads |-> 0] /\ freed = {}

\* The model ends with the application.
Running(A) == app = "running" /\ A /\ UNCHANGED <<js, jsVars>>

SNext ==
    \/ Running(Step)
    \/ Running(~js /\ \E t \in Threads : Bound(t) \/ Return(t))
    \/ Running(\E t \in Threads : JsCall(t))
    \/ app = "running" /\ \E t \in Threads : JsStep(t)

Spec == SInit /\ [][SNext]_allVars

-----------------------------------------------------------------------------
(* Properties *)

\* A step of a call or a callback that has begun.
Progress ==
    \/ \E t \in Threads : Proceed(t) \/ (~js /\ Return(t)) \/ JsStep(t)
    \/ DeliverTimer \/ LooperDone
    \/ CallbackStep

\* Calls and callbacks, with entryMapMutex_, mutex_, proxyMutex_, timerInfoMutex_
\* and the synchronous calls in between: while a call has not returned or the
\* looper is not done, somebody can go on, without help from new calls, new
\* alarms or a crash.  Nobody waits for somebody who waits for them.
CallsProceed ==
    app = "running" /\ (looping \/ \E t \in Threads : pc[t] # "idle") => ENABLED Progress

\* CheckProxy, SecondCheck, AssignProxy, SendRequest: timeServiceProxy_ has no lock.
\* A native application never calls through a proxy that is null or released, unless
\* the service has crashed or two of its threads have connected at the same time,
\* each with a death recipient of its own.
NativeAppSurvives == app = "crashed" => js \/ crashes > 0 \/ watchers > 1

\* The JavaScript unit tests destroy every timer they create and go on: calls on
\* timers, one after the other, do not end the application.
AppSurvives == app = "running"
=============================================================================
