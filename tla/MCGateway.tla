----------------------------- MODULE MCGateway ------------------------------
(* Two closings of one gateway, for TLC.                                   *)
EXTENDS Gateway

CONSTANTS k1, k2
=============================================================================
