------------------------------- MODULE Batch --------------------------------
(***************************************************************************)
(* services/timer/src/batch.cpp and the pure part of timer_manager.cpp:    *)
(* an alarm (TimerInfo), a batch of alarms that share one kernel wake-up,  *)
(* and the list of batches of the timer manager.                           *)
(*                                                                         *)
(* An alarm is a record whose field ref stands for the identity of the     *)
(* TimerInfo object, so that a set of alarms is what a std::vector of      *)
(* shared pointers holds.  Inside a batch the vector is sorted by          *)
(* whenElapsed; NextOf is what a loop over it may visit next.              *)
(***************************************************************************)
EXTENDS Integers, Sequences, SequencesExt

CONSTANT MinFuzzable    \* MIN_FUZZABLE_INTERVAL, in the units of the model

ASSUME MinFuzzableAssumption == MinFuzzable \in Nat

-----------------------------------------------------------------------------
(* TimerInfo and Batch *)

\* The TimerInfo constructor: the expected time is the first scheduled one.
TimerInfo(ref, id, prof, when, whenElapsed, window, maxWhen, interval) ==
    [ref |-> ref, id |-> id, prof |-> prof, when |-> when,
     whenElapsed |-> whenElapsed, maxWhenElapsed |-> maxWhen,
     expected |-> whenElapsed, window |-> window, interval |-> interval]

\* The bit TYPE_NONWAKEUP_MASK of a timer type distinguishes the types that
\* may not wake the device.
HasWakeups(b) == \E a \in b.alarms : a.prof.wakeup

\* Batch::Batch(seed)
NewBatch(a) ==
    [start |-> a.whenElapsed, end |-> a.maxWhenElapsed,
     standalone |-> a.prof.standalone, alarms |-> {a}]

CanHold(b, whenElapsed, maxWhen) == b.end > whenElapsed /\ b.start <= maxWhen

\* Mutant: the start of the batch does not follow a later alarm.
BatchAddKeepsStart(b, a) ==
    [start |-> b.start,
     end |-> Min({a.maxWhenElapsed, b.end}),
     standalone |-> b.standalone \/ a.prof.standalone,
     alarms |-> b.alarms \cup {a}]

\* Batch::Add; the code also returns whether the start moved.
BatchAdd(b, a) ==
    [start |-> Max({a.whenElapsed, b.start}),
     end |-> Min({a.maxWhenElapsed, b.end}),
     standalone |-> b.standalone \/ a.prof.standalone,
     alarms |-> b.alarms \cup {a}]

\* The bounds Batch::Remove recomputes from the alarms it keeps.
LatestWhen(S) == Max({a.whenElapsed : a \in S})
EarliestMax(S) == Min({a.maxWhenElapsed : a \in S})

\* Mutant: the bounds are not recomputed.
BatchRemoveKeepsBounds(b, id) == [b EXCEPT !.alarms = {a \in @ : a.id # id}]

\* Mutant: only one alarm of the timer is erased.
BatchRemoveFirst(b, id) ==
    LET mine == {a \in b.alarms : a.id = id}
    IN  [b EXCEPT !.alarms = IF mine = {} THEN @ ELSE @ \ {CHOOSE a \in mine : TRUE}]

\* Batch::Remove with the predicate "belongs to timer id".  A batch that
\* becomes empty is erased by the caller, so its bounds are never read.
BatchRemove(b, id) ==
    LET kept == {a \in b.alarms : a.id # id}
    IN  IF kept \in {b.alarms, {}}
        THEN [b EXCEPT !.alarms = kept]
        ELSE [start |-> LatestWhen(kept), end |-> EarliestMax(kept),
              standalone |-> \E a \in kept : a.prof.standalone,
              alarms |-> kept]

\* The alarms a loop over the sorted vector may take next: ties are arbitrary.
NextOf(S) == {a \in S : \A c \in S : a.whenElapsed <= c.whenElapsed}

-----------------------------------------------------------------------------
(* The batch list *)

\* std::upper_bound by start.  On a sorted list there is one such position;
\* a removal may leave the list unsorted, and then bisection ends at one of
\* the positions where the order of its neighbours is right.
UpperBound(list, start) ==
    {p \in 1 .. Len(list) + 1 :
        /\ p > 1 => list[p - 1].start <= start
        /\ p <= Len(list) => start < list[p].start}

\* The lists AddBatchLocked may produce.
AddBatchLocked(list, b) == {InsertAt(list, p, b) : p \in UpperBound(list, b.start)}

\* The index the code returns is never advanced in its loop: whichever batch
\* can hold the alarm, the answer is the position of the first batch.
AttemptCoalesceLocked(list, whenElapsed, maxWhen) ==
    IF \E i \in 1 .. Len(list) :
           ~list[i].standalone /\ CanHold(list[i], whenElapsed, maxWhen)
    THEN 1
    ELSE 0

\* The lists InsertAndBatchTimerLocked may produce.
InsertAndBatchTimerLocked(list, a) ==
    LET which == IF a.prof.standalone THEN 0
                 ELSE AttemptCoalesceLocked(list, a.whenElapsed, a.maxWhenElapsed)
    IN  IF which = 0
        THEN AddBatchLocked(list, NewBatch(a))
        ELSE LET b == BatchAdd(list[which], a)
             IN  IF b.start > list[which].start
                 THEN AddBatchLocked(RemoveAt(list, which), b)
                 ELSE {[list EXCEPT ![which] = b]}

\* All alarms of a list of batches.
AlarmsOf(list) == UNION {list[i].alarms : i \in 1 .. Len(list)}

-----------------------------------------------------------------------------
(* Trigger times *)

\* MaxTriggerTime: three quarters of the futurity, truncated towards zero; a
\* futurity below MIN_FUZZABLE_INTERVAL (a negative one too) gives no window.
MaxTriggerTime(now, trigger, interval) ==
    LET futurity == IF interval = 0 THEN trigger - now ELSE interval
    IN  trigger + (IF futurity < MinFuzzable THEN 0 ELSE (3 * futurity) \div 4)

\* Integer division of C++: the quotient is truncated towards zero.
TruncDiv(n, d) == IF n >= 0 THEN n \div d ELSE -((-n) \div d)
=============================================================================
