--------------------------- MODULE MCTimeService ---------------------------
(* Two binder threads, two zones on either side of UTC. *)
EXTENDS TimeService

CONSTANTS East, West

MCZones == {East, West}
MCOffset == [z \in MCZones |-> IF z = East THEN 8 ELSE -5]

\* Two calls of a kind, and the clock set once while the tick runs.
MCWorkloads ==
    {[kinds |-> {kind}, calls |-> 2] : kind \in {"time", "zone", "timer"}}
        \cup {[kinds |-> {"time", "tick"}, calls |-> 1]}
=============================================================================
