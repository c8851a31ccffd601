--------------------------- MODULE MCTimerManager ---------------------------
(* Instances of TimerManager for TLC.  One unit of time stands for one of the *)
(* constants of timer_manager.cpp scaled down; see README.md.                 *)
EXTENDS TimerImplements

Timer(rtc, wakeup, window, interval, uid) ==
    [rtc |-> rtc, wakeup |-> wakeup, window |-> window, interval |-> interval,
     uid |-> uid, standalone |-> FALSE]

Symmetric == Permutations(Ids)

\* A precise single-shot timer of an app, and a repeating timer of a system app
\* that does not wake the device: its window lets others join its batch.
CoreProfiles == {Timer(FALSE, TRUE, 0, 0, "app"), Timer(FALSE, FALSE, -1, 4, "sys")}

\* Two single-shot timers.
OnceProfiles == {Timer(FALSE, TRUE, 0, 0, "app"), Timer(FALSE, FALSE, 0, 0, "app")}

\* A single-shot wall-clock timer, and repeating timers that follow the boot
\* clock, exact and inexact.
ClockProfiles == {Timer(TRUE, TRUE, 0, 0, "app"), Timer(FALSE, TRUE, 0, 1, "app"),
                  Timer(FALSE, FALSE, -1, 2, "app")}

=============================================================================
