--------------------------- MODULE MCTimerClient ---------------------------
(* Two threads that make calls on two timers, each pair interchangeable. *)
EXTENDS SystemTimer

Symmetric == Permutations(Threads) \cup Permutations(Ids)
=============================================================================
