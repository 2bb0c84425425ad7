---------------------------- MODULE MCStateFile ----------------------------
(* Three concurrent changes of one store, for TLC.                         *)
EXTENDS StateFile

CONSTANTS c1, c2, c3
=============================================================================
