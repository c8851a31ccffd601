--------------------------- MODULE NtpUpdateTime ----------------------------
(***************************************************************************)
(* The network time update: services/time_manager/src/ntp_update_time.cpp  *)
(* with the SNTP exchange (sntp_client.cpp), the cached answer             *)
(* (ntp_trusted_time.cpp) and the events that start an update              *)
(* (nitz_subscriber.cpp, net_conn_callback_observer.cpp, the daily timer   *)
(* and the calls NetworkTimeStatusOn and NetworkTimeStatusOff).            *)
(*                                                                         *)
(* Nothing here is locked, so every thread of Threads may run any of the   *)
(* operations and they interleave between any two accesses to what they    *)
(* share: the settings, the settings file, the cached answer and the       *)
(* clock.  The wall clock shows boot + Base + err, and boot + Base is UTC. *)
(***************************************************************************)
EXTENDS Integers, NtpStamp

CONSTANTS
    Threads,      \* binder threads and the looper of the timer manager
    None,
    Unreadable,   \* the settings file: missing, truncated or not JSON
    Base,         \* UTC when boot = 0
    TzOffset,     \* GetCurrentOffsetMs of the current time zone
    Errs,         \* what the wall clock may show, and users may set it to
    Day,          \* DAY_TO_MILLISECOND
    EightHours,   \* EIGHTHOUR_TO_MILLISECONDS
    Word,         \* 2^64, the modulus of the unsigned NITZ arithmetic
    RetryMax,     \* RETRY_MAX_TIMES
    DiskErrors,   \* whether opening or writing the settings file may fail
    MaxTime,      \* bound: the boot clock stops here
    MaxCalls,     \* bound: operations started
    MaxCrashes    \* bound: crashes of the service

\* TimeResult: the time of the answer and when it was taken, whether Clear has
\* run, and (ghost) twice the error it may have.
Answers == [time : Int, ref : Int, cleared : BOOLEAN, slack : Int \cup {None}]

\* lastUpdateTime is saved and never used: whether it is set is all that is kept.
Settings == [status : {"ON", "OFF"}, updated : BOOLEAN]
Default == [status |-> "ON", updated |-> FALSE]

Ops == {"init", "net", "timer", "on", "off"}

ASSUME NtpAssumption ==
    /\ Base \in Nat /\ TzOffset \in Int /\ Errs \subseteq Int
    /\ Day \in Nat \ {0} /\ EightHours \in Nat /\ Word \in Nat \ {0}
    /\ RetryMax \in Nat \ {0} /\ DiskErrors \in BOOLEAN
    /\ EightHours + Day <= Word
    /\ MaxTime \in Nat /\ MaxCalls \in Nat /\ MaxCrashes \in Nat
    /\ MaxTime < Word
    /\ FirstEra(Base) /\ FirstEra(Base + MaxTime)
    /\ None \notin Int /\ None \notin Answers /\ None \notin Ops
    /\ Unreadable \notin Settings

VARIABLES
    boot, err,    \* steady_clock; wall clock minus UTC
    up,           \* the service is published
    info,         \* autoTimeInfo_
    file,         \* AUTOTIME_FILE_PATH
    nitz,         \* nitzUpdateTimeMili_
    cache,        \* mTimeResult, with the error bound of its value (ghost)
    monitor,      \* the thread that registers the network observer
    retryCount,   \* and the registrations that failed
    next,         \* when the daily timer goes off
    pc, op,       \* what each thread does
    loc,          \* its local variables
    calls, crashes,
    bound,        \* ghost: twice the error the last clock setting may have
    lost, raced   \* ghost: a save failed, or overlapped a change of the settings

procVars  == <<up, info, nitz, cache, monitor, retryCount, next>>
ghostVars == <<bound, lost, raced>>
vars == <<boot, err, procVars, file, pc, op, loc, calls, crashes, ghostVars>>

Steps == {"idle", "set", "request", "sent", "served", "received", "store",
          "read", "apply", "mark", "open", "write", "reload"}

\* sent, at and slack are ghosts: when the request left, when the value was
\* last taken from a clock, and twice the error it may have, None if another
\* thread spoiled it.
Locals == [tries : Nat, orig : Int, srv : Int, recv : Int, ntp : Int, ref : Int,
           cur : Int, buf : Settings \cup {None}, sent : Int, at : Int,
           slack : Int \cup {None}]
NoLocals == [tries |-> 0, orig |-> 0, srv |-> 0, recv |-> 0, ntp |-> 0, ref |-> 0,
             cur |-> 0, buf |-> None, sent |-> 0, at |-> 0, slack |-> None]

-----------------------------------------------------------------------------
(* Helpers *)

UTC == boot + Base
Wall == UTC + err       \* gettimeofday

\* The wall clock as an NTP time and back.
Stamps == StampsOf(Wall)

\* What the errors of two stamps may differ by: a stamp may be a millisecond ahead,
\* and may fall short by the other Millis - 1 of a second.
StampSpread == Millis

CheckStatus == info.status = "ON"

\* Mutant: the difference is signed.
NitzSigned == nitz # 0 /\ boot - nitz < Day

\* The subtraction is unsigned and nitz lies eight hours ahead: the answer is
\* FALSE for the first eight hours and TRUE for the day that follows.
IsNITZTimeInvalid == nitz # 0 /\ (boot - nitz) % Word < Day

\* Division of C++, truncated towards zero.
Half(n) == IF n >= 0 THEN n \div 2 ELSE -((-n) \div 2)

\* Mutant: the way back is left out.
OffsetOneWay(orig, srv, recv) == srv - orig

\* The clock offset of ReceivedMessage: the server received and answered the
\* request at srv.
ClockOffset(orig, srv, recv) == Half((srv - orig) + (srv - recv))

\* TimeResult::CurrentTimeMillis
CurrentTimeMillis(time, ref) == time + (boot - ref)

Goto(t, step) == pc' = [pc EXCEPT ![t] = step]

\* What follows SetSystemTime in the operation that called it.
AfterSetSystemTime(t) ==
    /\ Goto(t, CASE op[t] = "net" -> "idle" [] op[t] = "timer" -> "open" [] op[t] = "on" -> "mark")
    /\ op' = IF op[t] = "net" THEN [op EXCEPT ![t] = None] ELSE op

Finish(t) == AfterSetSystemTime(t) /\ loc' = [loc EXCEPT ![t] = NoLocals]

Begin(t, operation, step) ==
    /\ pc[t] = "idle"
    /\ op' = [op EXCEPT ![t] = operation]
    /\ Goto(t, step)
    /\ UNCHANGED loc

\* Whether a thread other than t has serialized the settings and not written
\* them yet.
SavingBesides(t) == \E s \in Threads \ {t} : pc[s] = "write"

-----------------------------------------------------------------------------
(* The operations and what starts them *)

\* NetConnCallbackObserver: the network is back.  The status is not asked.
NetCapabilitiesChange(t) ==
    /\ up /\ monitor = "on" /\ calls < MaxCalls
    /\ Begin(t, "net", "set")
    /\ calls' = calls + 1
    /\ UNCHANGED <<boot, err, procVars, file, crashes, ghostVars>>

\* The daily timer, on the one looper thread.  The timer manager has already
\* queued the first period that lies ahead.
RefreshNetworkTimeByTimer(t) ==
    /\ next # None /\ next <= boot
    /\ \A s \in Threads : op[s] # "timer"
    /\ next' \in {n \in boot + 1 .. boot + Day : (n - next) % Day = 0}
    /\ IF CheckStatus THEN Begin(t, "timer", "set") ELSE UNCHANGED <<pc, op, loc>>
    /\ UNCHANGED <<boot, err, up, info, nitz, cache, monitor, retryCount, file, calls, crashes,
                   ghostVars>>

UpdateStatusOn(t) ==
    /\ up /\ ~CheckStatus /\ calls < MaxCalls
    /\ Begin(t, "on", "set")
    /\ calls' = calls + 1
    /\ UNCHANGED <<boot, err, procVars, file, crashes, ghostVars>>

UpdateStatusOff(t) ==
    /\ up /\ calls < MaxCalls
    /\ Begin(t, "off", "open")
    /\ info' = [status |-> "OFF", updated |-> FALSE]
    /\ raced' = (raced \/ SavingBesides(t))
    /\ calls' = calls + 1
    /\ UNCHANGED <<boot, err, up, nitz, cache, monitor, retryCount, next, file, crashes, bound, lost>>

\* NITZSubscriber: the radio network has set the clock.
UpdateNITZSetTime ==
    /\ up /\ calls < MaxCalls
    /\ nitz' = boot + EightHours
    /\ calls' = calls + 1
    /\ UNCHANGED <<boot, err, up, info, cache, monitor, retryCount, next, file, pc, op, loc,
                   crashes, ghostVars>>

-----------------------------------------------------------------------------
(* SetSystemTime *)

BeginSetSystemTime(t) ==
    /\ pc[t] = "set"
    /\ IF IsNITZTimeInvalid
       THEN Finish(t)
       ELSE Goto(t, "request") /\ UNCHANGED <<op, loc>>
    /\ UNCHANGED <<boot, err, procVars, file, calls, crashes, ghostVars>>

\* RequestTime up to send: the request carries the wall clock.
Send(t) ==
    /\ pc[t] = "request"
    /\ Goto(t, "sent")
    /\ \E stamp \in Stamps :
          loc' = [loc EXCEPT ![t] = [@ EXCEPT !.orig = stamp, !.sent = boot,
                                                !.slack = IF FirstEra(Wall) THEN 0 ELSE None]]
    /\ UNCHANGED <<boot, err, procVars, file, op, calls, crashes, ghostVars>>

\* The server stamps the request and answers.
Serve(t) ==
    /\ pc[t] = "sent"
    /\ Goto(t, "served")
    /\ loc' = [loc EXCEPT ![t] = [@ EXCEPT !.srv = UTC]]
    /\ UNCHANGED <<boot, err, procVars, file, op, calls, crashes, ghostVars>>

\* No address, no socket, no route, or no answer within TIME_OUT.  ForceRefresh
\* tries a second time and then gives up.
RequestFails(t) ==
    /\ pc[t] \in {"request", "sent", "served"}
    /\ IF loc[t].tries = 0
       THEN /\ Goto(t, "request")
            /\ loc' = [loc EXCEPT ![t] = [NoLocals EXCEPT !.tries = 1]]
            /\ UNCHANGED op
       ELSE Finish(t)
    /\ UNCHANGED <<boot, err, procVars, file, calls, crashes, ghostVars>>

\* ReceivedMessage reads the wall clock ...
ReceivedMessage(t) ==
    /\ pc[t] = "served"
    /\ Goto(t, "received")
    /\ \E stamp \in Stamps :
          loc' = [loc EXCEPT ![t] =
              [@ EXCEPT !.recv = stamp, !.at = boot,
                        !.slack = IF loc[t].slack = None \/ ~FirstEra(Wall) THEN None
                                  ELSE (boot - loc[t].sent) + 1 + StampSpread]]
    /\ UNCHANGED <<boot, err, procVars, file, op, calls, crashes, ghostVars>>

\* ... and, after the arithmetic, the steady clock.  ForceRefresh then clears
\* the old answer in place,
ForceRefresh(t) ==
    /\ pc[t] = "received"
    /\ Goto(t, "store")
    /\ LET l == loc[t]
       IN  loc' = [loc EXCEPT ![t] =
              [NoLocals EXCEPT
                  !.ntp = l.recv + ClockOffset(l.orig, l.srv, l.recv), !.ref = boot,
                  !.slack = IF l.slack = None THEN None ELSE l.slack + 2 * (boot - l.at)]]
    /\ cache' = IF cache = None THEN None ELSE [cache EXCEPT !.cleared = TRUE]
    /\ UNCHANGED <<boot, err, up, info, nitz, monitor, retryCount, next, file, op, calls, crashes,
                   ghostVars>>

\* and replaces it.
StoreResult(t) ==
    /\ pc[t] = "store"
    /\ Goto(t, "read")
    /\ cache' = [time |-> loc[t].ntp, ref |-> loc[t].ref, cleared |-> FALSE,
                 slack |-> loc[t].slack]
    /\ loc' = [loc EXCEPT ![t] = NoLocals]
    /\ UNCHANGED <<boot, err, up, info, nitz, monitor, retryCount, next, file, op, calls,
                   crashes, ghostVars>>

\* CurrentTimeMillis reads whatever answer is cached by then.  While another
\* thread clears it, each of its two fields may already be zero.
ReadResult(t) ==
    /\ pc[t] = "read"
    /\ \E time \in IF cache.cleared THEN {cache.time, 0} ELSE {cache.time},
          ref  \in IF cache.cleared THEN {cache.ref, 0} ELSE {cache.ref} :
          LET cur == CurrentTimeMillis(time, ref)
          IN  IF cur <= 0
              THEN Finish(t)
              ELSE /\ Goto(t, "apply")
                   /\ loc' = [loc EXCEPT
                         ![t] = [NoLocals EXCEPT
                                    !.cur = cur + TzOffset, !.at = boot,
                                    !.slack = IF cache.cleared THEN None ELSE cache.slack]]
                   /\ UNCHANGED op
    /\ UNCHANGED <<boot, err, procVars, file, calls, crashes, ghostVars>>

\* A clock setting spoils the exchanges that are between their two stamps.
Spoiled(t, locals) ==
    [s \in Threads |-> IF s # t /\ pc[s] \in {"sent", "served"}
                       THEN [locals[s] EXCEPT !.slack = None]
                       ELSE locals[s]]

\* TimeService::SetTime may refuse or fail; SetSystemTime records the time as
\* the last update all the same.
ApplyTime(t) ==
    /\ pc[t] = "apply"
    /\ info' = [info EXCEPT !.updated = TRUE]
    /\ \/ /\ loc[t].cur >= 0
          /\ err' = loc[t].cur - UTC
          /\ bound' = IF loc[t].slack = None THEN None
                      ELSE loc[t].slack + 2 * (boot - loc[t].at)
          /\ loc' = Spoiled(t, [loc EXCEPT ![t] = NoLocals])
       \/ /\ loc' = [loc EXCEPT ![t] = NoLocals]
          /\ UNCHANGED <<err, bound>>
    /\ AfterSetSystemTime(t)
    /\ UNCHANGED <<boot, up, nitz, cache, monitor, retryCount, next, file, calls, crashes, lost, raced>>

\* The last assignment of UpdateStatusOn.
MarkOn(t) ==
    /\ pc[t] = "mark"
    /\ Goto(t, "open")
    /\ info' = [info EXCEPT !.status = "ON"]
    /\ raced' = (raced \/ SavingBesides(t))
    /\ UNCHANGED <<boot, err, up, nitz, cache, monitor, retryCount, next, file, op, loc, calls,
                   crashes, bound, lost>>

-----------------------------------------------------------------------------
(* SaveAutoTimeInfoToFile: opening truncates the file; the settings are *)
(* written when the stream is closed.                                   *)

\* What follows a save.
AfterSave(t) ==
    /\ Goto(t, IF op[t] = "init" THEN "reload" ELSE "idle")
    /\ op' = IF op[t] = "init" THEN op ELSE [op EXCEPT ![t] = None]
    /\ loc' = [loc EXCEPT ![t] = NoLocals]

OpenFile(t) ==
    /\ pc[t] = "open"
    /\ \/ /\ file' = Unreadable
          /\ loc' = [loc EXCEPT ![t] = [@ EXCEPT !.buf = info]]
          /\ Goto(t, "write")
          /\ UNCHANGED <<op, lost>>
       \/ /\ DiskErrors
          /\ AfterSave(t)
          /\ lost' = TRUE
          /\ UNCHANGED file
    /\ UNCHANGED <<boot, err, procVars, calls, crashes, bound, raced>>

WriteFile(t) ==
    /\ pc[t] = "write"
    /\ AfterSave(t)
    /\ \/ file' = loc[t].buf /\ UNCHANGED lost
       \/ DiskErrors /\ lost' = TRUE /\ UNCHANGED file
    /\ UNCHANGED <<boot, err, procVars, calls, crashes, bound, raced>>

-----------------------------------------------------------------------------
(* Init, MonitorNetwork, and the crash of the service *)

\* The end of Init: the network is monitored and the daily timer started,
\* unless the settings could not be read back.  OnStart then publishes.
Running(t, readable) ==
    /\ up' = TRUE
    /\ monitor' = IF readable THEN "trying" ELSE "none"
    /\ retryCount' = 0
    /\ next' = IF readable THEN boot + Day ELSE None
    /\ Goto(t, "idle")

\* Mutant: the defaults are used and not saved.
InitUnsaved(t) ==
    /\ ~up /\ \A s \in Threads : pc[s] = "idle"
    /\ info' = IF file = Unreadable THEN Default ELSE file
    /\ Running(t, TRUE)
    /\ UNCHANGED <<boot, err, nitz, cache, file, op, loc, calls, crashes, ghostVars>>

\* NtpUpdateTime::Init on some thread, when the service starts.
InitUpdate(t) ==
    /\ ~up /\ \A s \in Threads : pc[s] = "idle"
    /\ IF file = Unreadable
       THEN /\ info' = Default
            /\ op' = [op EXCEPT ![t] = "init"]
            /\ Goto(t, "open")
            /\ UNCHANGED <<up, monitor, retryCount, next>>
       ELSE /\ info' = file
            /\ Running(t, TRUE)
            /\ UNCHANGED op
    /\ UNCHANGED <<boot, err, nitz, cache, file, loc, calls, crashes, ghostVars>>

\* Its second reading of the file.
Reload(t) ==
    /\ pc[t] = "reload"
    /\ info' = IF file = Unreadable THEN info ELSE file
    /\ Running(t, file # Unreadable)
    /\ op' = [op EXCEPT ![t] = None]
    /\ UNCHANGED <<boot, err, nitz, cache, file, loc, calls, crashes, ghostVars>>

\* Mutant: the loop never gives up.
MonitorForever ==
    /\ monitor = "trying"
    /\ \/ monitor' = "on" /\ UNCHANGED retryCount
       \/ retryCount' = retryCount + 1 /\ UNCHANGED monitor
    /\ UNCHANGED <<boot, err, up, info, nitz, cache, next, file, pc, op, loc, calls,
                   crashes, ghostVars>>

\* One turn of the loop that registers the network observer.
MonitorNetwork ==
    /\ monitor = "trying"
    /\ \/ monitor' = "on" /\ UNCHANGED retryCount
       \/ /\ retryCount' = retryCount + 1
          /\ monitor' = IF retryCount' < RetryMax THEN "trying" ELSE "none"
    /\ UNCHANGED <<boot, err, up, info, nitz, cache, next, file, pc, op, loc, calls,
                   crashes, ghostVars>>

\* What a process that starts has in memory; Init fills the settings before
\* anything reads them.
Fresh ==
    /\ up' = FALSE
    /\ info' = Default
    /\ nitz' = 0
    /\ cache' = None
    /\ monitor' = "none"
    /\ retryCount' = 0
    /\ next' = None
    /\ pc' = [t \in Threads |-> "idle"]
    /\ op' = [t \in Threads |-> None]
    /\ loc' = [t \in Threads |-> NoLocals]
    /\ lost' = FALSE /\ raced' = FALSE

Crash ==
    /\ crashes < MaxCrashes
    /\ crashes' = crashes + 1
    /\ Fresh
    /\ UNCHANGED <<boot, err, file, calls, bound>>

-----------------------------------------------------------------------------
(* The clocks *)

\* TimeService::SetTime called by an application.
SetTime(e) ==
    /\ up /\ e # err /\ calls < MaxCalls
    /\ err' = e
    /\ bound' = None
    /\ calls' = calls + 1
    /\ loc' = [s \in Threads |-> IF pc[s] \in {"sent", "served"}
                                 THEN [loc[s] EXCEPT !.slack = None] ELSE loc[s]]
    /\ UNCHANGED <<boot, procVars, file, pc, op, crashes, lost, raced>>

Tick ==
    /\ boot < MaxTime
    /\ boot' = boot + 1
    /\ UNCHANGED <<err, procVars, file, pc, op, loc, calls, crashes, ghostVars>>

-----------------------------------------------------------------------------
Init ==
    /\ boot = 0 /\ err \in Errs
    /\ up = FALSE /\ info = Default /\ nitz = 0 /\ cache = None
    /\ monitor = "none" /\ retryCount = 0 /\ next = None
    /\ file = Unreadable
    /\ pc = [t \in Threads |-> "idle"]
    /\ op = [t \in Threads |-> None]
    /\ loc = [t \in Threads |-> NoLocals]
    /\ calls = 0 /\ crashes = 0
    /\ bound = None /\ lost = FALSE /\ raced = FALSE

Start(t) ==
    \/ InitUpdate(t)
    \/ NetCapabilitiesChange(t)
    \/ RefreshNetworkTimeByTimer(t)
    \/ UpdateStatusOn(t)
    \/ UpdateStatusOff(t)

Step(t) ==
    \/ BeginSetSystemTime(t)
    \/ Send(t)
    \/ RequestFails(t)
    \/ ReceivedMessage(t)
    \/ ForceRefresh(t)
    \/ StoreResult(t)
    \/ ReadResult(t)
    \/ ApplyTime(t)
    \/ MarkOn(t)
    \/ OpenFile(t)
    \/ WriteFile(t)
    \/ Reload(t)

Next ==
    \/ \E t \in Threads : Start(t) \/ Step(t) \/ Serve(t)
    \/ UpdateNITZSetTime
    \/ MonitorNetwork
    \/ Crash
    \/ \E e \in Errs : SetTime(e)
    \/ Tick

Spec == Init /\ [][Next]_vars

-----------------------------------------------------------------------------
(* Properties *)

TypeOK ==
    /\ boot \in Nat /\ err \in Int /\ up \in BOOLEAN
    /\ info \in Settings /\ file \in Settings \cup {Unreadable}
    /\ nitz \in Nat /\ cache \in Answers \cup {None}
    /\ monitor \in {"none", "trying", "on"} /\ retryCount \in 0 .. RetryMax
    /\ next \in Nat \cup {None}
    /\ pc \in [Threads -> Steps] /\ op \in [Threads -> Ops \cup {None}]
    /\ loc \in [Threads -> Locals]
    /\ calls \in Nat /\ crashes \in Nat
    /\ bound \in Int \cup {None} /\ lost \in BOOLEAN /\ raced \in BOOLEAN

\* SetSystemTime: an update adds the offset of the time zone to the UTC time it
\* has computed, and leaves the clock that far ahead of UTC, which UpdateIsUTC
\* finds.  Beyond that the clock is wrong by no more than half the duration of the
\* exchange, half of what two stamps may differ by, and the time the thread was
\* held up between reading a clock and using the value: whatever the clock showed
\* before and however updates overlap, unless a clock setting fell between the two
\* stamps, the cached answer was being cleared, or the clock showed a year whose
\* stamp overflows.
UpdateIsAccurate ==
    bound # None => 2 * (err - TzOffset) \in -bound .. bound

\* TimeServiceClient::GetWallTimeMs reads the wall clock and calls it "the UTC time
\* from 1970 0H:0M:0S": an update leaves it at UTC, within the same error.
UpdateIsUTC == bound # None => 2 * err \in -bound .. bound

\* ConvertUnixToNtp, ConvertNtpToStamp: the way there and back ends at the clock's
\* millisecond or the next, at every microsecond; in the last one of a second the
\* overflow of the fraction may cost that second, and no more.
StampNear ==
    FirstEra(Wall) =>
        \A u \in Microseconds(Wall) : \A ntp \in ConvertUnixToNtp(Wall \div Millis, u) :
            ConvertNtpToStamp(ntp) - Wall \in
                IF u = Micros - 1 THEN -(Millis - 1) .. 0 ELSE 0 .. 1

\* Whenever no save is in progress the settings file can be read and holds the
\* status the service acts on, after a crash in the middle of a save too; the
\* exceptions are a save that failed and one that overlapped a change.
SavedSettings ==
    up /\ ~lost /\ (\A t \in Threads : op[t] \in {None, "net"}) =>
        file # Unreadable /\ (raced \/ file.status = info.status)

\* How long ago the radio network set the clock.
NitzAge == boot - (nitz - EightHours)

\* UpdateNITZSetTime, IsNITZTimeInvalid: an update gives way to the time of the
\* radio network for exactly one day, which begins eight hours after that time
\* came: an update before or after it goes on to ask a server.  Before it, the
\* unsigned difference has wrapped; a restart forgets the time.
NitzRespected ==
    [][\A t \in Threads : pc[t] = "set" =>
          LET trusted == nitz # 0 /\ NitzAge \in EightHours .. EightHours + Day - 1
          IN  /\ pc'[t] = "request" => ~trusted
              /\ pc'[t] \notin {"set", "request"} => trusted \/ ~up']_vars
=============================================================================
