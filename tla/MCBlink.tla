-------------------------------- MODULE MCBlink --------------------------------
(* Model checking of Blink with two workers.                                  *)
EXTENDS Blink

CONSTANTS w1, w2

MCWorkers == {w1, w2}
===============================================================================
