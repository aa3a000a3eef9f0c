---------------------------- MODULE MCWebConfigure ----------------------------
(* Model checking of WebConfigure with two workers, which are alike, and three *)
(* networks: the second has a blank in its name, without which it is the first. *)
EXTENDS WebConfigure, TLC

CONSTANTS w1, w2, homenet, spaced, office

MCWorkers  == {w1, w2}
MCSsids    == {homenet, spaced, office}
MCReadBack == [s \in MCSsids |-> IF s = spaced THEN homenet ELSE s]
Symmetry   == Permutations(MCWorkers)
===============================================================================
