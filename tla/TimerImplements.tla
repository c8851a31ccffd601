--------------------------- MODULE TimerImplements ---------------------------
(* TimerManager implements TimerContract. *)
EXTENDS TimerManager

Numbered(S) == {<<a.ref, a.id>> : a \in S}

Contract == INSTANCE TimerContract WITH
    alive  <- {id \in Ids : entries[id] \in Profiles},
    pool   <- Numbered(Queued \cup Held),
    next   <- made,
    called <- Numbered(called)

\* StartTimer, TriggerTimersLocked, DeliverTimersLocked, StopTimerInner,
\* ReBatchAllTimersLocked and the proxy calls, interleaved in any way: each of
\* their steps makes one new alarm, calls back alarms that are there, drops some
\* or does nothing, as the contract says; an alarm is never in two places, and
\* none that was called back or dropped is queued again.
ContractKept == Contract!Spec
=============================================================================
