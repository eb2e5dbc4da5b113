---------------------------- MODULE MCWorldSwitch ----------------------------
(* Model values for WorldSwitch: any of three threads are started. *)
EXTENDS WorldSwitch, TLC

CONSTANTS t1, t2, t3

Trio == {t1, t2, t3}
Symmetric == Permutations(Trio)
=============================================================================
