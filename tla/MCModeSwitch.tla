----------------------------- MODULE MCModeSwitch -----------------------------
(* Model checking of ModeSwitch with two threads: the GLib loop and a timer. *)
EXTENDS ModeSwitch

CONSTANTS loop, timer

MCThreads      == {loop, timer}
MCSplitRestart == {"client"}
===============================================================================
