---------------------------- MODULE MCSinkQueue ----------------------------
(* Instances of SinkQueue for TLC.  The calls whose step does not panic are *)
(* interchangeable where no temporal property is checked.                   *)
EXTENDS SinkQueue, TLC

Symmetry == Permutations(Jobs \ Faulty)
=============================================================================
