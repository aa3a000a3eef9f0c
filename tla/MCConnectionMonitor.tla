-------------------------- MODULE MCConnectionMonitor --------------------------
(* Model checking of ConnectionMonitor with two threads that start and stop   *)
(* it and two checks that may overlap.                                        *)
EXTENDS ConnectionMonitor

CONSTANTS loop, main, c1, c2

MCCallers  == {loop, main}
MCCheckers == {c1, c2}
===============================================================================
