---------------------------- MODULE TimerContract ----------------------------
(***************************************************************************)
(* What a timer manager promises its clients, without batches, kernel      *)
(* timers, clocks, proxies and threads: an alarm is made by a StartTimer   *)
(* of a timer that exists or as the next period of an alarm that is still  *)
(* there; it is called back at most once, or dropped; what was called back *)
(* or dropped never comes back.                                            *)
(***************************************************************************)
EXTENDS Naturals

CONSTANTS Ids

VARIABLES
    alive,   \* the timers that exist
    pool,    \* the alarms that may still be called back, as <<number, timer>>
    next,    \* the number of the next alarm
    called   \* the alarms the last step called back

vars == <<alive, pool, next, called>>

Init == alive = {} /\ pool = {} /\ next = 0 /\ called = {}

Create(id) ==
    /\ id \notin alive
    /\ alive' = alive \cup {id}
    /\ called' = {}
    /\ UNCHANGED <<pool, next>>

NewAlarm(id) ==
    /\ pool' = pool \cup {<<next, id>>}
    /\ next' = next + 1
    /\ called' = {}
    /\ UNCHANGED alive

Start(id) == id \in alive /\ NewAlarm(id)

\* The next period of an alarm.
Renew(a) == a \in pool /\ NewAlarm(a[2])

\* A timer is stopped or destroyed, an alarm whose time has passed is left out,
\* a proxy is lifted without its alarms.
Drop(S, gone) ==
    /\ pool' = pool \ S
    /\ alive' = alive \ gone
    /\ called' = {}
    /\ UNCHANGED next

Fire(S) ==
    /\ S # {} /\ S \subseteq pool
    /\ pool' = pool \ S
    /\ called' = S
    /\ UNCHANGED <<alive, next>>

Next ==
    \/ \E id \in Ids : Create(id) \/ Start(id)
    \/ \E a \in pool : Renew(a)
    \/ \E S \in SUBSET pool, gone \in SUBSET alive : Drop(S, gone)
    \/ \E S \in SUBSET pool : Fire(S)

Spec == Init /\ [][Next]_vars
=============================================================================
